---------------------------- MODULE Spec2Model ----------------------------
(***************************************************************************)
(* ArtParticle3D: the image-to-particle sampler (loadImageData), its       *)
(* geometry cache and the ParticleSystem component that requests, holds    *)
(* and draws particle datasets.                                            *)
(*                                                                         *)
(* Units.  The code works on JS doubles; the model keeps every quantity    *)
(* exact as an integer numerator over a fixed denominator:                 *)
(*   density      tenths            (15 is the density 1.5)                *)
(*   positions    twentieths        ((x - width/2) * 0.1 = (2x - width)/20)*)
(*   colors       1/255             (the channel byte itself)              *)
(*   brightness   1/765             ((r+g+b)/3 with r,g,b in 1/255)        *)
(*   randoms      1/RngMod          (a value of [0,1))                     *)
(***************************************************************************)
EXTENDS Integers, Sequences, FiniteSets, TLC

VARIABLES
    imageUrl,       \* prop imageUrl of ParticleSystem (latest committed render)
    config,         \* prop config (the field the loader reads: density)
    geometryData,   \* useState<GeometryData | null>: <<>> is null, <<d>> holds d
    error,          \* useState<string | null>: NoError is null
    effectPending,  \* a committed render changed [imageUrl, config.density]; its effect has not run yet
    inflight,       \* the promises returned by loadImageData that have not been delivered, oldest first
    geometryCache,  \* the module-level Map, as its entries in insertion order
    rng,            \* the state of the engine's Math.random generator
    scene,          \* what the latest render returned (committed React output)
    uniforms,       \* the shader uniforms object (useMemo, written by useFrame)
    clock,          \* state.clock.getElapsedTime()
    effectRuns,     \* number of effect runs so far (bounds the exploration)
    explored,       \* what SpecCache has used of its bounds: [fresh, repeats, failures]
    cacheLog,       \* history: the cache hits and geometryCache.set calls so far, in order
    lastOp,         \* the operation that produced this state, with what it observed
    pc,             \* sampler harness: position
    raster,         \* sampler harness: the decoded image
    sDensity,       \* sampler harness: the density argument
    step,           \* sampler harness: the grid step computed for (raster, sDensity)
    out1,           \* sampler harness: first dataset sampled, <<>> before
    out2,           \* sampler harness: second dataset sampled, <<>> before
    glUniforms,     \* animator harness: the uniform values of the draw call
    vertex,         \* animator harness: the attributes of the vertex that is shaded
    glOut,          \* animator harness: what the two shader programs computed, <<>> before
    cpu,            \* CPU variant of ParticleSystem: its props, state and geometry attributes
    heap,           \* CPU variant: the Float32Array objects, by reference (index)
    audioDataRef,   \* the audioDataRef prop: <<>> when not passed, <<a>> when its current is a
    denser,         \* sampler harness: the step and count for a second, larger density, <<>> before
    app             \* the App component and its analysis requests, <<>> when not modelled

vars == <<imageUrl, config, geometryData, error, effectPending, inflight,
          geometryCache, rng, scene, uniforms, clock, effectRuns, explored,
          cacheLog, lastOp, pc, raster, sDensity, step, out1, out2,
          glUniforms, vertex, glOut, cpu, heap, audioDataRef, denser, app>>

compVars    == <<imageUrl, config, geometryData, error, effectPending, inflight,
                 geometryCache, scene, uniforms, clock, effectRuns, explored, cacheLog>>
animVars    == <<glUniforms, vertex, glOut, cpu, heap, audioDataRef>>
auxVars     == <<denser, app>>
harnessVars == <<pc, raster, sDensity, step, out1, out2, animVars, auxVars>>

-----------------------------------------------------------------------------
(* Bounds of the exploration *)

MaxDim      == 4   \* sampled rasters are at most MaxDim x MaxDim
RngMod      == 2   \* number of states of the Math.random generator
MaxLoads    == 3   \* effect runs explored by Spec
MaxRequests == 12  \* effect runs explored by SpecCache
MaxTime     == 1   \* frames explored
MaxInFlight == 2   \* promises pending at once in SpecCache
MaxRepeats  == 1   \* requests of an already requested key in SpecCache
MaxFailures == 1   \* failed loads in SpecCache
WarmUp      == 9   \* SpecCache: the first WarmUp requests are new keys, loaded one at a time
MaxConfigLoads == 3  \* effect runs in SpecConfig
MaxTicks    == 2   \* frames in SpecConfig
MaxSelects  == 3   \* paintings selected in SpecApp
MaxLiveLoads == 3  \* effect runs in SpecLive
MaxFrames   == 2   \* frames of the CPU animator explored by SpecAnimator

(* Program constants *)

CacheLimit   == 10        \* geometryCache.size > 10
PixelCap     == 2000000   \* width * height > 2000000
MinDensity10 == 5         \* Math.max(0.5, ...), in tenths
MaxDensity10 == 100       \* Math.min(10, ...), in tenths
StepNumer10  == 60        \* 6 / safeDensity, in tenths
AlphaCut10   == 255       \* a / 255 < 0.1  <=>  10 * a < 255

Min(a, b) == IF a < b THEN a ELSE b
Max(a, b) == IF a > b THEN a ELSE b

-----------------------------------------------------------------------------
(* Template-literal formatting of the cache key *)

Digit == <<"0", "1", "2", "3", "4", "5", "6", "7", "8", "9">>

RECURSIVE NatStr(_)
NatStr(n) == IF n < 10 THEN Digit[n + 1]
             ELSE NatStr(n \div 10) \o Digit[(n % 10) + 1]

\* `${density}` for a density given in tenths: "2", "1.5", "-1", "0.5"
NumStr(d10) ==
    LET m == IF d10 < 0 THEN -d10 ELSE d10
        s == IF d10 < 0 THEN "-" ELSE ""
    IN  IF m % 10 = 0 THEN s \o NatStr(m \div 10)
        ELSE s \o NatStr(m \div 10) \o "." \o Digit[(m % 10) + 1]

cacheKey(src, density) == src \o "-" \o NumStr(density)

-----------------------------------------------------------------------------
(* Decoded images.  A raster is [width, height, kind]; its RGBA bytes are  *)
(* read through DataAt, row-major, 4 bytes per pixel, index from 0.        *)

RasterKinds == {"opaque", "quadrant", "threshold", "clear"}

PixelAt(img, x, y) ==
    LET r == (x * 40 + 15) % 256
        g == (y * 60 + 30) % 256
        b == ((x + y) * 25) % 256
    IN  CASE img.kind = "opaque"    -> <<r, g, b, 255>>
          [] img.kind = "quadrant"  -> <<r, g, b, IF 2 * x < img.width /\ 2 * y < img.height
                                                  THEN 0 ELSE 255>>
          [] img.kind = "threshold" -> <<r, g, b, IF (x + y) % 2 = 0 THEN 25 ELSE 26>>
          [] OTHER                  -> <<r, g, b, 0>>

DataAt(img, i) ==
    LET p == i \div 4
    IN  PixelAt(img, p % img.width, p \div img.width)[(i % 4) + 1]

-----------------------------------------------------------------------------
(* loadImageData: the sampler (img.onload, after getImageData succeeded)   *)

\* Math.round(6 / safeDensity): round half up, on the exact quotient
RoundStep(safe10) == (2 * StepNumer10 + safe10) \div (2 * safe10)

\* const safeDensity = Math.max(0.5, Math.min(10, density))
safeDensity(density) == Max(MinDensity10, Min(MaxDensity10, density))

\* the step without the cap for large images
GridStepUncapped(width, height, density) == Max(1, RoundStep(safeDensity(density)))

\* a step that grows with the density instead of shrinking
GridStepDirect(width, height, density) == Max(1, safeDensity(density) \div 10)

\* let step = Math.max(1, Math.round(6 / safeDensity));
\* if (width * height > 2000000 && step < 2) step = 2;
GridStep(width, height, density) ==
    LET s0 == Max(1, RoundStep(safeDensity(density)))
    IN  IF width * height > PixelCap /\ s0 < 2 THEN 2 ELSE s0

\* the cut applied to the alpha byte instead of alpha / 255 (a < 0.1 is then a < 1)
SkippedByte(alpha) == alpha < 1

\* if (a < 0.1) continue;   with a = data[i + 3] / 255
Skipped(alpha) == 10 * alpha < AlphaCut10

\* Math.random(): returns the generator's state as a value of [0,1) and advances it
NextRandom(r) == (r + 1) % RngMod

EmptyArrays(r) ==
    [positions |-> <<>>, colors |-> <<>>, brightness |-> <<>>, randoms |-> <<>>, rng |-> r]

\* the loop body with the seed pushed before the alpha test
PushPixelSeedFirst(img, x, y, acc) ==
    LET i  == (y * img.width + x) * 4
        r  == DataAt(img, i)
        g  == DataAt(img, i + 1)
        b  == DataAt(img, i + 2)
        a  == DataAt(img, i + 3)
        withSeed == [acc EXCEPT !.randoms = Append(@, acc.rng), !.rng = NextRandom(acc.rng)]
    IN  IF Skipped(a) THEN withSeed
        ELSE [withSeed EXCEPT
                 !.positions  = @ \o <<2 * x - img.width, -(2 * y - img.height), 0>>,
                 !.colors     = @ \o <<r, g, b>>,
                 !.brightness = Append(@, r + g + b)]

\* the loop body with the seed stored as the particle's z
PushPixelSeedAsZ(img, x, y, acc) ==
    LET i  == (y * img.width + x) * 4
        r  == DataAt(img, i)
        g  == DataAt(img, i + 1)
        b  == DataAt(img, i + 2)
        a  == DataAt(img, i + 3)
    IN  IF Skipped(a) THEN acc
        ELSE [positions  |-> acc.positions \o <<2 * x - img.width, -(2 * y - img.height), acc.rng>>,
              colors     |-> acc.colors \o <<r, g, b>>,
              brightness |-> Append(acc.brightness, r + g + b),
              randoms    |-> Append(acc.randoms, acc.rng),
              rng        |-> NextRandom(acc.rng)]

\* the body of the inner loop for the pixel (x, y): the pushes on the four arrays
PushPixel(img, x, y, acc) ==
    LET i  == (y * img.width + x) * 4
        r  == DataAt(img, i)
        g  == DataAt(img, i + 1)
        b  == DataAt(img, i + 2)
        a  == DataAt(img, i + 3)
    IN  IF Skipped(a) THEN acc
        ELSE [positions  |-> acc.positions \o <<2 * x - img.width, -(2 * y - img.height), 0>>,
              colors     |-> acc.colors \o <<r, g, b>>,
              brightness |-> Append(acc.brightness, r + g + b),
              randoms    |-> Append(acc.randoms, acc.rng),
              rng        |-> NextRandom(acc.rng)]

\* the loops nested the other way round: x outside, y inside
RECURSIVE SampleLoopColumnMajor(_, _, _, _, _)
SampleLoopColumnMajor(img, st, x, y, acc) ==
    IF x >= img.width THEN acc
    ELSE IF y >= img.height THEN SampleLoopColumnMajor(img, st, x + st, 0, acc)
    ELSE SampleLoopColumnMajor(img, st, x, y + st, PushPixel(img, x, y, acc))

\* for (let y = 0; y < height; y += step) for (let x = 0; x < width; x += step)
RECURSIVE SampleLoop(_, _, _, _, _)
SampleLoop(img, st, x, y, acc) ==
    IF y >= img.height THEN acc
    ELSE IF x >= img.width THEN SampleLoop(img, st, 0, y + st, acc)
    ELSE SampleLoop(img, st, x + st, y, PushPixel(img, x, y, acc))

\* the GeometryData built by img.onload for (src, density), and the generator afterwards
Sample(img, src, density, r) ==
    LET acc == SampleLoop(img, GridStep(img.width, img.height, density), 0, 0, EmptyArrays(r))
    IN  [result |-> [positions  |-> acc.positions,
                     colors     |-> acc.colors,
                     brightness |-> acc.brightness,
                     randoms    |-> acc.randoms,
                     density    |-> density,
                     src        |-> src],
         rng    |-> acc.rng]

-----------------------------------------------------------------------------
(* The images behind the URLs, and the keys the explorations request       *)

Srcs      == {"a", "b"}
Densities == {20, 30}          \* the densities 2 and 3

\* the raster the browser decodes for src (img.width, img.height, getImageData)
ImageOf(src) ==
    CASE src = "a" -> [width |-> 3, height |-> 2, kind |-> "opaque"]
      [] src = "b" -> [width |-> 2, height |-> 2, kind |-> "quadrant"]
      [] src = "z" -> [width |-> 0, height |-> 2, kind |-> "opaque"]
      [] OTHER     -> [width |-> 1, height |-> 1, kind |-> "opaque"]

\* the order in which SpecCache introduces new (src, density) requests:
\* the density slider's values 1, 1.5, ..., 6 for "a", then "b"
KeyOrder ==
    [i \in 1..11 |-> [src |-> "a", density |-> 5 * (i + 1)]]
        \o <<[src |-> "b", density |-> 10], [src |-> "b", density |-> 15]>>

-----------------------------------------------------------------------------
(* geometryCache: a Map<string, GeometryData>, entries in insertion order  *)

CacheKeys(cache) == {cache[i].key : i \in 1..Len(cache)}

\* geometryCache.has(key)
CacheHas(cache, key) == key \in CacheKeys(cache)

\* geometryCache.get(key)!
CacheGet(cache, key) ==
    cache[CHOOSE i \in 1..Len(cache) : cache[i].key = key].value

\* a set that moves a present key to the newest place (delete, then insert)
CacheSetMoveLast(cache, key, value) ==
    Append(SelectSeq(cache, LAMBDA e : e.key # key), [key |-> key, value |-> value])

\* geometryCache.set(key, value): a present key keeps its place, a new key goes last
CacheSet(cache, key, value) ==
    IF CacheHas(cache, key)
    THEN [i \in 1..Len(cache) |->
             IF cache[i].key = key THEN [key |-> key, value |-> value] ELSE cache[i]]
    ELSE Append(cache, [key |-> key, value |-> value])

\* a trim that fires one entry late (size > 11)
CacheTrimLate(cache) ==
    IF Len(cache) > CacheLimit + 1 /\ cache[1].key # "" THEN Tail(cache) ELSE cache

\* if (geometryCache.size > 10) { firstKey = keys().next().value; if (firstKey) delete(firstKey) }
CacheTrim(cache) ==
    IF Len(cache) > CacheLimit /\ cache[1].key # "" THEN Tail(cache) ELSE cache

-----------------------------------------------------------------------------
(* ParticleSystem *)

NoError == "null"

RemoveAt(seq, i) == [j \in 1..(Len(seq) - 1) |-> IF j < i THEN seq[j] ELSE seq[j + 1]]

\* Render without the src comparison of the strict sync check
RenderDensityOnly(url, cfg, gd, err) ==
    IF err # NoError THEN [kind |-> "Text", count |-> 0]
    ELSE IF gd = <<>> \/ gd[1].density # cfg.density
         THEN [kind |-> "null", count |-> 0]
         ELSE [kind |-> "points", count |-> Len(gd[1].positions) \div 3]

\* the component's return value: the error Text, null, or <points> with count particles
Render(url, cfg, gd, err) ==
    IF err # NoError THEN [kind |-> "Text", count |-> 0]
    ELSE IF gd = <<>> \/ gd[1].density # cfg.density \/ gd[1].src # url
         THEN [kind |-> "null", count |-> 0]
         ELSE [kind |-> "points", count |-> Len(gd[1].positions) \div 3]

\* materialRef.current: the shaderMaterial exists while <points> is mounted
materialRef == scene.kind = "points"

LogEntry(op, key) == [op |-> op, key |-> key]

Op(name, key, mounted, ok) == [op |-> name, key |-> key, mounted |-> mounted, ok |-> ok]

\* a parent render with new props; the effect's dependencies changed
SetProps(src, density) ==
    /\ ~effectPending
    /\ <<src, density>> # <<imageUrl, config.density>>
    /\ imageUrl' = src
    /\ config' = [config EXCEPT !.density = density]
    /\ effectPending' = TRUE
    /\ scene' = Render(src, config', geometryData, error)
    /\ lastOp' = Op("SetProps", cacheKey(src, density), FALSE, TRUE)
    /\ UNCHANGED <<geometryData, error, inflight, geometryCache, rng, uniforms, clock,
                   effectRuns, cacheLog>>

\* an effect without the cleanup function
CleanupMissing(loads) == loads

\* the cleanup of the previous effect: isMounted = false in its closure
Cleanup(loads) == [i \in 1..Len(loads) |-> [loads[i] EXCEPT !.isMounted = FALSE]]

\* loadImageData without the cache check
StartLoadUncached(src, density) ==
    [src |-> src, density |-> density, isMounted |-> TRUE, run |-> effectRuns + 1,
     settled |-> <<>>]

\* loadImageData up to its return: a cache hit is a resolved promise, a miss starts an Image
StartLoad(src, density) ==
    LET key == cacheKey(src, density)
    IN  [src |-> src, density |-> density, isMounted |-> TRUE, run |-> effectRuns + 1,
         settled |-> IF CacheHas(geometryCache, key)
                     THEN <<CacheGet(geometryCache, key)>> ELSE <<>>]

\* an effect without setError(null)
RunEffectKeepsError ==
    /\ effectPending
    /\ effectPending' = FALSE
    /\ error' = error
    /\ inflight' = Append(Cleanup(inflight), StartLoad(imageUrl, config.density))
    /\ effectRuns' = effectRuns + 1
    /\ scene' = Render(imageUrl, config, geometryData, error)
    /\ cacheLog' = IF CacheHas(geometryCache, cacheKey(imageUrl, config.density))
                   THEN Append(cacheLog, LogEntry("hit", cacheKey(imageUrl, config.density)))
                   ELSE cacheLog
    /\ lastOp' = Op("RunEffect", cacheKey(imageUrl, config.density), TRUE,
                    CacheHas(geometryCache, cacheKey(imageUrl, config.density)))
    /\ UNCHANGED <<imageUrl, config, geometryData, geometryCache, rng, uniforms, clock>>

\* useEffect(..., [imageUrl, config.density]): cleanup, setError(null), loadImageData(...)
RunEffect ==
    /\ effectPending
    /\ effectPending' = FALSE
    /\ error' = NoError
    /\ inflight' = Append(Cleanup(inflight), StartLoad(imageUrl, config.density))
    /\ effectRuns' = effectRuns + 1
    /\ scene' = Render(imageUrl, config, geometryData, NoError)
    /\ cacheLog' = IF CacheHas(geometryCache, cacheKey(imageUrl, config.density))
                   THEN Append(cacheLog, LogEntry("hit", cacheKey(imageUrl, config.density)))
                   ELSE cacheLog
    /\ lastOp' = Op("RunEffect", cacheKey(imageUrl, config.density), TRUE,
                    CacheHas(geometryCache, cacheKey(imageUrl, config.density)))
    /\ UNCHANGED <<imageUrl, config, geometryData, geometryCache, rng, uniforms, clock>>

\* .then(data => { if (isMounted) setGeometryData(data) }) of the promise inflight[i]
Resolved(i, data) ==
    /\ geometryData' = IF inflight[i].isMounted THEN <<data>> ELSE geometryData
    /\ error' = error
    /\ inflight' = RemoveAt(inflight, i)
    /\ scene' = Render(imageUrl, config, geometryData', error')

\* a catch callback that sets the error and keeps the dataset
RejectedKeepsData(i, message) ==
    /\ geometryData' = geometryData
    /\ error' = IF inflight[i].isMounted THEN message ELSE error
    /\ inflight' = RemoveAt(inflight, i)
    /\ scene' = Render(imageUrl, config, geometryData', error')

\* .catch(err => { if (isMounted) { setError(err.message); setGeometryData(null) } })
Rejected(i, message) ==
    /\ geometryData' = IF inflight[i].isMounted THEN <<>> ELSE geometryData
    /\ error' = IF inflight[i].isMounted THEN message ELSE error
    /\ inflight' = RemoveAt(inflight, i)
    /\ scene' = Render(imageUrl, config, geometryData', error')

\* the promise of a cache hit is delivered
HitDeliver(i) ==
    /\ inflight[i].settled # <<>>
    /\ Resolved(i, inflight[i].settled[1])
    /\ lastOp' = Op("HitDeliver", cacheKey(inflight[i].src, inflight[i].density),
                    inflight[i].isMounted, TRUE)
    /\ UNCHANGED <<imageUrl, config, effectPending, geometryCache, rng, uniforms, clock,
                   effectRuns, cacheLog>>

\* an img.onload for which getImageData returns an empty array for an empty
\* rectangle instead of throwing
ImgOnloadNoThrow(i, ctxOk, readable) ==
    LET l   == inflight[i]
        key == cacheKey(l.src, l.density)
        img == ImageOf(l.src)
        s   == Sample(img, l.src, l.density, rng)
    IN  /\ l.settled = <<>>
        /\ IF ~ctxOk
           THEN /\ Rejected(i, "Failed to get 2D context")
                /\ lastOp' = Op("ImgOnload", key, l.isMounted, FALSE)
                /\ UNCHANGED <<geometryCache, rng, cacheLog>>
           ELSE IF ~readable
           THEN /\ Rejected(i, "IndexSizeError")
                /\ lastOp' = Op("ImgOnload", key, l.isMounted, FALSE)
                /\ UNCHANGED <<geometryCache, rng, cacheLog>>
           ELSE /\ geometryCache' = CacheTrim(CacheSet(geometryCache, key, s.result))
                /\ rng' = s.rng
                /\ cacheLog' = Append(cacheLog, LogEntry("set", key))
                /\ Resolved(i, s.result)
                /\ lastOp' = Op("ImgOnload", key, l.isMounted, TRUE)
        /\ UNCHANGED <<imageUrl, config, effectPending, uniforms, clock, effectRuns>>

\* img.onload of the load inflight[i]; ctxOk: getContext('2d') returned a context,
\* readable: drawImage/getImageData did not throw
ImgOnload(i, ctxOk, readable) ==
    LET l   == inflight[i]
        key == cacheKey(l.src, l.density)
        img == ImageOf(l.src)
        s   == Sample(img, l.src, l.density, rng)
    IN  /\ l.settled = <<>>
        /\ IF ~ctxOk
           THEN /\ Rejected(i, "Failed to get 2D context")
                /\ lastOp' = Op("ImgOnload", key, l.isMounted, FALSE)
                /\ UNCHANGED <<geometryCache, rng, cacheLog>>
           ELSE IF ~readable \/ img.width = 0 \/ img.height = 0
           THEN /\ Rejected(i, "IndexSizeError")
                /\ lastOp' = Op("ImgOnload", key, l.isMounted, FALSE)
                /\ UNCHANGED <<geometryCache, rng, cacheLog>>
           ELSE /\ geometryCache' = CacheTrim(CacheSet(geometryCache, key, s.result))
                /\ rng' = s.rng
                /\ cacheLog' = Append(cacheLog, LogEntry("set", key))
                /\ Resolved(i, s.result)
                /\ lastOp' = Op("ImgOnload", key, l.isMounted, TRUE)
        /\ UNCHANGED <<imageUrl, config, effectPending, uniforms, clock, effectRuns>>

\* img.onerror of the load inflight[i]
ImgOnerror(i) ==
    /\ inflight[i].settled = <<>>
    /\ Rejected(i, "Failed to load image")
    /\ lastOp' = Op("ImgOnerror", cacheKey(inflight[i].src, inflight[i].density),
                    inflight[i].isMounted, FALSE)
    /\ UNCHANGED <<imageUrl, config, effectPending, geometryCache, rng, uniforms, clock,
                   effectRuns, cacheLog>>

\* a useFrame that falls back to full volume when no audioDataRef was passed
FrameUniformsFallback ==
    [glUniforms EXCEPT
        !.uDepth      = config.depth,
        !.uDispersion = config.dispersion,
        !.uBrightness = config.brightness,
        !.uSize       = config.size,
        !.uAudioLow   = IF audioDataRef # <<>> THEN audioDataRef[1].low ELSE 1000,
        !.uAudioMid   = IF audioDataRef # <<>> THEN audioDataRef[1].mid ELSE 1000,
        !.uAudioHigh  = IF audioDataRef # <<>> THEN audioDataRef[1].high ELSE 1000]

\* the uniforms other than uTime as useFrame writes them: from config and, if
\* the audioDataRef prop was passed, from its current value
FrameUniforms ==
    [glUniforms EXCEPT
        !.uDepth      = config.depth,
        !.uDispersion = config.dispersion,
        !.uBrightness = config.brightness,
        !.uSize       = config.size,
        !.uAudioLow   = IF audioDataRef # <<>> THEN audioDataRef[1].low ELSE @,
        !.uAudioMid   = IF audioDataRef # <<>> THEN audioDataRef[1].mid ELSE @,
        !.uAudioHigh  = IF audioDataRef # <<>> THEN audioDataRef[1].high ELSE @]

\* a useFrame that writes the elapsed time only
FrameTimeOnly ==
    /\ clock' = clock + 1
    /\ uniforms' = IF materialRef THEN [uTime |-> clock'] ELSE uniforms
    /\ glUniforms' = glUniforms
    /\ lastOp' = Op("Frame", "", FALSE, materialRef)
    /\ UNCHANGED <<imageUrl, config, geometryData, error, effectPending, inflight,
                   geometryCache, rng, scene, effectRuns, cacheLog>>

\* useFrame: if (materialRef.current) the uniforms are written for this frame
Frame ==
    /\ clock' = clock + 1
    /\ uniforms' = IF materialRef THEN [uTime |-> clock'] ELSE uniforms
    /\ glUniforms' = IF materialRef THEN FrameUniforms ELSE glUniforms
    /\ lastOp' = Op("Frame", "", FALSE, materialRef)
    /\ UNCHANGED <<imageUrl, config, geometryData, error, effectPending, inflight,
                   geometryCache, rng, scene, effectRuns, cacheLog>>

\* a parent render with the same imageUrl and density and other visual settings:
\* the effect's dependencies [imageUrl, config.density] are the same, no effect runs
SetConfig(size, depth, dispersion, brightness) ==
    /\ <<size, depth, dispersion, brightness>>
           # <<config.size, config.depth, config.dispersion, config.brightness>>
    /\ config' = [config EXCEPT !.size = size, !.depth = depth,
                                !.dispersion = dispersion, !.brightness = brightness]
    /\ scene' = Render(imageUrl, config', geometryData, error)
    /\ lastOp' = Op("SetConfig", cacheKey(imageUrl, config.density), FALSE, TRUE)
    /\ UNCHANGED <<imageUrl, geometryData, error, effectPending, inflight, geometryCache, rng,
                   uniforms, clock, effectRuns, cacheLog>>

-----------------------------------------------------------------------------
(* The shader programs.  A GLSL float is modelled in fixed point: the       *)
(* integer v stands for v / Scale, a product or quotient is rounded down to *)
(* a multiple of 1 / Scale.  sin and cos, whose precision GLSL leaves to    *)
(* the implementation, are Bhaskara's rational approximation.               *)

Scale == 1000
Pi    == 3142          \* pi, in 1 / Scale

Mul(a, b) == (a * b) \div Scale
Div(a, b) == (a * Scale) \div b

\* the value num / den as a float
ToFloat(num, den) == (num * Scale) \div den

\* sin on [0, pi]: 16 x (pi - x) / (5 pi^2 - 4 x (pi - x))
\* (numerator and denominator both divided by 100 to stay within 32 bits)
HalfWave(x) ==
    LET p == x * (Pi - x)
    IN  ((p \div 10) * 160 * (Scale \div 100)) \div ((5 * Pi * Pi - 4 * p) \div 100)

Sin(x) ==
    LET m == x % (2 * Pi)
    IN  IF m <= Pi THEN HalfWave(m) ELSE -HalfWave(m - Pi)

Cos(x) == Sin(x + Pi \div 2)

\* the attributes of particle k of dataset d, as the bufferAttributes hand them to the shader
Attributes(d, k) ==
    [position    |-> <<ToFloat(d.positions[3 * k - 2], 20), ToFloat(d.positions[3 * k - 1], 20),
                       ToFloat(d.positions[3 * k], 20)>>,
     aBrightness |-> ToFloat(d.brightness[k], 765),
     aRandom     |-> ToFloat(d.randoms[k], RngMod),
     aColor      |-> <<ToFloat(d.colors[3 * k - 2], 255), ToFloat(d.colors[3 * k - 1], 255),
                       ToFloat(d.colors[3 * k], 255)>>]

\* a depth term without the bass boost
DepthTermNoBass(a, u) == Mul(a.aBrightness, u.uDepth)

\* float z = aBrightness * uDepth * (1.0 + uAudioLow * 0.5);
DepthTerm(a, u) == Mul(Mul(a.aBrightness, u.uDepth), Scale + Mul(u.uAudioLow, 500))

\* a wave amplitude whose base differs from the non-audio program's
WaveAmpDoubled(u) == 3000 + Mul(u.uAudioLow, 8000)

\* float waveAmp = 1.5 + (uAudioLow * 8.0);
WaveAmp(u) == 1500 + Mul(u.uAudioLow, 8000)

\* float effectiveDispersion = uDispersion + (uAudioHigh * 5.0);
EffectiveDispersion(u) == u.uDispersion + Mul(u.uAudioHigh, 5000)

\* the body of the dispersion branch: the displaced x and y and the scatter added to z
Disperse(a, u, dispersion) ==
    LET spread == Mul(dispersion, 2000)
        noiseX == Mul(Sin(Mul(a.aRandom, 100000) + Mul(u.uTime, 2000)), Cos(Mul(a.aRandom, 200000)))
        noiseY == Mul(Cos(Mul(a.aRandom, 100000) + Mul(u.uTime, 2000)), Sin(Mul(a.aRandom, 200000)))
    IN  [x       |-> a.position[1] + Mul(Mul(noiseX, spread), a.aRandom),
         y       |-> a.position[2] + Mul(Mul(noiseY, spread), a.aRandom),
         scatter |-> Mul(Mul(a.aRandom - 500, spread), 5000)]

Undisplaced(a) == [x |-> a.position[1], y |-> a.position[2], scatter |-> 0]

\* the audio program with the wave inside the dispersion branch
VertexAudioWaveInBranch(a, u) ==
    LET zDepth == DepthTerm(a, u)
        eff    == EffectiveDispersion(u)
        p      == IF eff > 0 THEN Disperse(a, u, eff) ELSE Undisplaced(a)
        wave   == IF eff > 0 THEN Mul(Sin(Mul(p.x, 50) + u.uTime), WaveAmp(u)) ELSE 0
    IN  [x |-> p.x, y |-> p.y, z |-> zDepth + p.scatter + wave,
         zDepth |-> zDepth, scatter |-> p.scatter, wave |-> wave]

\* the audio program with the wave taken on the attribute x, before the displacement
VertexAudioWaveFirst(a, u) ==
    LET zDepth == DepthTerm(a, u)
        eff    == EffectiveDispersion(u)
        wave   == Mul(Sin(Mul(a.position[1], 50) + u.uTime), WaveAmp(u))
        p      == IF eff > 0 THEN Disperse(a, u, eff) ELSE Undisplaced(a)
    IN  [x |-> p.x, y |-> p.y, z |-> zDepth + wave + p.scatter,
         zDepth |-> zDepth, scatter |-> p.scatter, wave |-> wave]

\* vertexShader main() of the audio variant up to pos.z = z: the displaced
\* position, with the three terms of z
VertexAudio(a, u) ==
    LET zDepth == DepthTerm(a, u)
        eff    == EffectiveDispersion(u)
        p      == IF eff > 0 THEN Disperse(a, u, eff) ELSE Undisplaced(a)
        wave   == Mul(Sin(Mul(p.x, 50) + u.uTime), WaveAmp(u))
    IN  [x |-> p.x, y |-> p.y, z |-> zDepth + p.scatter + wave,
         zDepth |-> zDepth, scatter |-> p.scatter, wave |-> wave]

\* vertexShader main() of the non-audio variant (components/ParticleSystem.tsx)
VertexPlain(a, u) ==
    LET zDepth == Mul(a.aBrightness, u.uDepth)
        p      == IF u.uDispersion > 0 THEN Disperse(a, u, u.uDispersion) ELSE Undisplaced(a)
        wave   == Mul(Sin(Mul(p.x, 50) + u.uTime), 1500)
    IN  [x |-> p.x, y |-> p.y, z |-> zDepth + p.scatter + wave,
         zDepth |-> zDepth, scatter |-> p.scatter, wave |-> wave]

\* gl_FragColor.rgb of the audio variant: vColor * uBrightness * (1.0 + uAudioMid * 1.5)
FragmentAudio(a, u) ==
    [c \in 1..3 |-> Mul(Mul(a.aColor[c], u.uBrightness), Scale + Mul(u.uAudioMid, 1500))]

\* gl_FragColor.rgb of the non-audio variant: vColor * uBrightness
FragmentPlain(a, u) == [c \in 1..3 |-> Mul(a.aColor[c], u.uBrightness)]

DefaultCamera == 180000    \* camera position [0, 0, 180]

\* mvPosition.z for a camera on the +z axis at cameraZ that looks at the origin
ViewZ(z, cameraZ) == z - cameraZ

\* what a division by zero may yield: +Inf, -Inf or NaN (value is the sign)
DivByZero == {[finite |-> FALSE, value |-> s] : s \in {-1, 0, 1}}

\* gl_PointSize = uSize * (300.0 / -mvPosition.z); undef is the outcome if mvPosition.z is 0
\* (the product is taken before the quotient to stay within 32 bits)
PointSize(u, mvZ, undef) ==
    IF mvZ = 0 THEN undef
    ELSE [finite |-> TRUE, value |-> Div(Mul(u.uSize, 300 * Scale), -mvZ)]

-----------------------------------------------------------------------------
(* The CPU variant of ParticleSystem (src/types.ts): its loader keeps the    *)
(* values as floats, its frame callback animates a position buffer.  Typed  *)
(* arrays are objects of the heap, held by reference.                       *)

\* the loop body of the CPU variant: positions.push(x', y', brightness); colors.push(r, g, b)
PushPixelCpu(img, x, y, acc) ==
    LET i  == (y * img.width + x) * 4
        r  == DataAt(img, i)
        g  == DataAt(img, i + 1)
        b  == DataAt(img, i + 2)
        a  == DataAt(img, i + 3)
    IN  IF Skipped(a) THEN acc
        ELSE [positions |-> acc.positions \o <<ToFloat(2 * x - img.width, 20),
                                               -ToFloat(2 * y - img.height, 20),
                                               ToFloat(r + g + b, 765)>>,
              colors    |-> acc.colors \o <<ToFloat(r, 255), ToFloat(g, 255), ToFloat(b, 255)>>]

RECURSIVE SampleLoopCpu(_, _, _, _, _)
SampleLoopCpu(img, st, x, y, acc) ==
    IF y >= img.height THEN acc
    ELSE IF x >= img.width THEN SampleLoopCpu(img, st, 0, y + st, acc)
    ELSE SampleLoopCpu(img, st, x + st, y, PushPixelCpu(img, x, y, acc))

\* the arrays the CPU loader resolves with
SampleCpu(img, density) ==
    SampleLoopCpu(img, GridStep(img.width, img.height, density), 0, 0,
                  [positions |-> <<>>, colors |-> <<>>])

\* geometry attributes that use the dataset's own arrays
BufferAttributesShared(h, positions, colors) ==
    [heap |-> h, position |-> positions, color |-> colors]

\* BufferAttributes: new Float32Array(positions), new Float32Array(colors)
BufferAttributes(h, positions, colors) ==
    [heap     |-> h \o <<h[positions], h[colors]>>,
     position |-> Len(h) + 1,
     color    |-> Len(h) + 2]

\* one turn of the frame loop for particle i (from 0): its x, y and z
CpuVertex(i, base, cfg, time) ==
    LET brightness   == base[3 * i + 3]
        zDepth       == Mul(brightness, cfg.depth)
        noiseX       == Mul(Sin(i * 100 + 2 * time), Cos(i * 200))
        noiseY       == Mul(Cos(i * 100 + 2 * time), Sin(i * 200))
        randomFactor == Mul(Sin(i * 78233) + Scale, 500)
        spread       == cfg.dispersion * 2
        x            == IF cfg.dispersion > 0
                        THEN base[3 * i + 1] + Mul(Mul(noiseX, spread), randomFactor)
                        ELSE base[3 * i + 1]
        y            == IF cfg.dispersion > 0
                        THEN base[3 * i + 2] + Mul(Mul(noiseY, spread), randomFactor)
                        ELSE base[3 * i + 2]
        scatter      == IF cfg.dispersion > 0
                        THEN Mul(Mul(randomFactor - 500, spread), 5000) ELSE 0
    IN  <<x, y, zDepth + scatter + Mul(Sin(Mul(x, 50) + time), 1500)>>

\* the position buffer after the loop over all particles
AnimateCpu(base, cfg, time) ==
    [j \in 1..Len(base) |-> CpuVertex((j - 1) \div 3, base, cfg, time)[((j - 1) % 3) + 1]]

CpuUnmounted(src, cfg) ==
    [imageUrl |-> src, config |-> cfg, geometryData |-> <<>>, attributes |-> <<>>,
     time |-> 0, frames |-> 0, oob |-> FALSE]

\* the loader resolves, setGeometryData(data), the render mounts <points> with BufferAttributes
LoadCpu ==
    LET d  == SampleCpu(ImageOf(cpu.imageUrl), cpu.config.density)
        h  == heap \o <<d.positions, d.colors>>
        at == BufferAttributes(h, Len(heap) + 1, Len(heap) + 2)
    IN  /\ cpu.geometryData = <<>>
        /\ heap' = at.heap
        /\ cpu' = [cpu EXCEPT !.geometryData = <<[positions |-> Len(heap) + 1,
                                                  colors    |-> Len(heap) + 2,
                                                  density   |-> cpu.config.density,
                                                  src       |-> cpu.imageUrl]>>,
                              !.attributes = <<[position |-> at.position, color |-> at.color]>>]
        /\ lastOp' = Op("LoadCpu", cacheKey(cpu.imageUrl, cpu.config.density), TRUE, TRUE)

\* a frame callback without the length check of line 189: the loop runs over
\* the dataset's particles; a write past the end of the render buffer is
\* dropped by the typed array and recorded in oob
FrameCpuUnchecked(time) ==
    /\ cpu.frames < MaxFrames
    /\ time >= cpu.time
    /\ IF \/ cpu.attributes = <<>>
          \/ cpu.geometryData = <<>>
          \/ cpu.geometryData[1].density # cpu.config.density
          \/ cpu.geometryData[1].src # cpu.imageUrl
       THEN /\ heap' = heap
            /\ cpu' = [cpu EXCEPT !.time = time, !.frames = @ + 1]
            /\ lastOp' = Op("FrameCpu", "", FALSE, FALSE)
       ELSE LET positions == cpu.attributes[1].position
                base      == cpu.geometryData[1].positions
                animated  == AnimateCpu(heap[base], cpu.config, time)
            IN  /\ heap' = [heap EXCEPT
                                ![positions] = [j \in 1..Len(heap[positions]) |->
                                                   IF j <= Len(heap[base]) THEN animated[j]
                                                   ELSE heap[positions][j]]]
                /\ cpu' = [cpu EXCEPT !.time = time, !.frames = @ + 1,
                                      !.oob = @ \/ Len(heap[base]) > Len(heap[positions])]
                /\ lastOp' = Op("FrameCpu", "", TRUE, TRUE)

\* a frame callback that displaces x and y from where the last frame left them
FrameCpuAccumulating(time) ==
    /\ cpu.frames < MaxFrames
    /\ time >= cpu.time
    /\ cpu' = [cpu EXCEPT !.time = time, !.frames = @ + 1]
    /\ IF \/ cpu.attributes = <<>>
          \/ cpu.geometryData = <<>>
          \/ cpu.geometryData[1].density # cpu.config.density
          \/ cpu.geometryData[1].src # cpu.imageUrl
       THEN /\ heap' = heap
            /\ lastOp' = Op("FrameCpu", "", FALSE, FALSE)
       ELSE LET positions == cpu.attributes[1].position
                base      == cpu.geometryData[1].positions
                from      == [j \in 1..Len(heap[base]) |->
                                 IF j % 3 = 0 THEN heap[base][j] ELSE heap[positions][j]]
            IN  IF Len(heap[positions]) # Len(heap[base])
                THEN /\ heap' = heap
                     /\ lastOp' = Op("FrameCpu", "", TRUE, FALSE)
                ELSE /\ heap' = [heap EXCEPT
                                    ![positions] = AnimateCpu(from, cpu.config, time)]
                     /\ lastOp' = Op("FrameCpu", "", TRUE, TRUE)

\* useFrame of the CPU variant at elapsed time `time`
FrameCpu(time) ==
    /\ cpu.frames < MaxFrames
    /\ time >= cpu.time
    /\ cpu' = [cpu EXCEPT !.time = time, !.frames = @ + 1]
    /\ IF \/ cpu.attributes = <<>>
          \/ cpu.geometryData = <<>>
          \/ cpu.geometryData[1].density # cpu.config.density
          \/ cpu.geometryData[1].src # cpu.imageUrl
       THEN /\ heap' = heap
            /\ lastOp' = Op("FrameCpu", "", FALSE, FALSE)
       ELSE LET positions == cpu.attributes[1].position
                base      == cpu.geometryData[1].positions
            IN  IF Len(heap[positions]) # Len(heap[base])
                THEN /\ heap' = heap
                     /\ lastOp' = Op("FrameCpu", "", TRUE, FALSE)
                ELSE /\ heap' = [heap EXCEPT
                                    ![positions] = AnimateCpu(heap[base], cpu.config, time)]
                     /\ lastOp' = Op("FrameCpu", "", TRUE, TRUE)

\* one invocation of the two shader programs on the vertex, for a camera at cameraZ
Shade(program, a, u, cameraZ, undef) ==
    LET v == IF program = "audio" THEN VertexAudio(a, u) ELSE VertexPlain(a, u)
    IN  [pos    |-> v,
         camera |-> cameraZ,
         mvZ    |-> ViewZ(v.z, cameraZ),
         size   |-> PointSize(u, ViewZ(v.z, cameraZ), undef),
         color  |-> IF program = "audio" THEN FragmentAudio(a, u) ELSE FragmentPlain(a, u)]

\* the uniforms of the draw call: uTime as useFrame wrote it, the others from config and audio
DrawUniforms == [glUniforms EXCEPT !.uTime = uniforms.uTime * Scale]

\* the uniforms object as useMemo creates it at mount for the config cfg
InitialUniforms(cfg) ==
    [uTime |-> 0, uDepth |-> cfg.depth, uDispersion |-> cfg.dispersion,
     uBrightness |-> cfg.brightness, uSize |-> cfg.size,
     uAudioLow |-> 0, uAudioMid |-> 0, uAudioHigh |-> 0]

\* App's audioDataRef before any audio was analysed
SilentAudio == [low |-> 0, mid |-> 0, high |-> 0]

AnimIdle ==
    /\ glUniforms = InitialUniforms(config)
    /\ audioDataRef = <<SilentAudio>>
    /\ vertex = <<>>
    /\ glOut = [audio |-> <<>>, plain |-> <<>>]
    /\ cpu = CpuUnmounted("a", [density |-> 10, depth |-> 0, dispersion |-> 0])
    /\ heap = <<>>

-----------------------------------------------------------------------------
(* Spec: the component under arbitrary requests over Srcs x Densities      *)

\* the config App starts with, at the density given
DefaultConfig(density) ==
    [density |-> density, size |-> ((4 * Scale) \div 5), depth |-> 15 * Scale,
     dispersion |-> 0, brightness |-> ((6 * Scale) \div 5)]

AuxIdle ==
    /\ denser = <<>>
    /\ app = <<>>

HarnessIdle ==
    /\ AuxIdle
    /\ pc = "idle"
    /\ raster = [width |-> 1, height |-> 1, kind |-> "opaque"]
    /\ sDensity = 10
    /\ step = 0
    /\ out1 = <<>>
    /\ out2 = <<>>
    /\ AnimIdle

Mounted(src, density) ==
    /\ imageUrl = src
    /\ config = DefaultConfig(density)
    /\ geometryData = <<>>
    /\ error = NoError
    /\ effectPending = TRUE
    /\ inflight = <<>>
    /\ geometryCache = <<>>
    /\ rng \in 0..(RngMod - 1)
    /\ scene = Render(src, DefaultConfig(density), <<>>, NoError)
    /\ uniforms = [uTime |-> 0]
    /\ clock = 0
    /\ effectRuns = 0
    /\ cacheLog = <<>>
    /\ lastOp = Op("mount", cacheKey(src, density), FALSE, TRUE)

Init ==
    /\ \E src \in Srcs, density \in Densities : Mounted(src, density)
    /\ explored = [fresh |-> 0, repeats |-> 0, failures |-> 0]
    /\ HarnessIdle

Request ==
    /\ effectRuns < MaxLoads
    /\ \E src \in Srcs, density \in Densities : SetProps(src, density)
    /\ UNCHANGED <<explored, harnessVars>>

Effect == RunEffect /\ UNCHANGED <<explored, harnessVars>>

Hit == \E i \in 1..Len(inflight) : HitDeliver(i) /\ UNCHANGED <<explored, harnessVars>>

Onload ==
    \E i \in 1..Len(inflight), ctxOk \in BOOLEAN, readable \in BOOLEAN :
        ImgOnload(i, ctxOk, readable) /\ UNCHANGED <<explored, harnessVars>>

Onerror == \E i \in 1..Len(inflight) : ImgOnerror(i) /\ UNCHANGED <<explored, harnessVars>>

Tick ==
    /\ clock < MaxTime
    /\ Frame
    /\ UNCHANGED <<explored, pc, raster, sDensity, step, out1, out2, vertex, glOut, cpu, heap,
                   audioDataRef, auxVars>>

Next == Request \/ Effect \/ Hit \/ Onload \/ Onerror \/ Tick

Spec == Init /\ [][Next]_vars

-----------------------------------------------------------------------------
(* SpecCache: the component requesting the keys of KeyOrder: a new key is  *)
(* always the next of KeyOrder, a key already requested may be requested   *)
(* again (MaxRepeats times), a load may fail (MaxFailures times).  The     *)
(* first WarmUp requests fill the cache one load at a time.                *)

InitCache ==
    /\ Mounted(KeyOrder[1].src, KeyOrder[1].density)
    /\ explored = [fresh |-> 1, repeats |-> 0, failures |-> 0]
    /\ HarnessIdle

WarmingUp == effectRuns < WarmUp

RequestNext ==
    /\ effectRuns < MaxRequests
    /\ Len(inflight) < (IF WarmingUp THEN 1 ELSE MaxInFlight)
    /\ \E i \in 1..Min(explored.fresh + 1, Len(KeyOrder)) :
          /\ i <= explored.fresh => ~WarmingUp /\ explored.repeats < MaxRepeats
          /\ SetProps(KeyOrder[i].src, KeyOrder[i].density)
          /\ explored' = IF i <= explored.fresh
                         THEN [explored EXCEPT !.repeats = @ + 1]
                         ELSE [explored EXCEPT !.fresh = i]
    /\ UNCHANGED harnessVars

OnloadSome ==
    \E i \in 1..Len(inflight), ctxOk \in BOOLEAN, readable \in BOOLEAN :
        /\ ImgOnload(i, ctxOk, readable)
        /\ IF ctxOk /\ readable
           THEN UNCHANGED explored
           ELSE /\ ~WarmingUp
                /\ explored.failures < MaxFailures
                /\ explored' = [explored EXCEPT !.failures = @ + 1]
        /\ UNCHANGED harnessVars

OnerrorSome ==
    \E i \in 1..Len(inflight) :
        /\ ~WarmingUp
        /\ explored.failures < MaxFailures
        /\ ImgOnerror(i)
        /\ explored' = [explored EXCEPT !.failures = @ + 1]
        /\ UNCHANGED harnessVars

NextCache == RequestNext \/ Effect \/ Hit \/ OnloadSome \/ OnerrorSome

SpecCache == InitCache /\ [][NextCache]_vars

-----------------------------------------------------------------------------
(* SpecSampler: the sampler applied to a decoded raster and a density,     *)
(* twice, with the random generator in any state                           *)

BigSizes == {<<1414, 1414>>, <<1415, 1414>>, <<2000, 1000>>, <<2000, 1001>>}

SampleRasters ==
    {[width |-> w, height |-> h, kind |-> k] :
        w \in 1..MaxDim, h \in 1..MaxDim, k \in RasterKinds}
    \cup {[width |-> wh[1], height |-> wh[2], kind |-> "opaque"] : wh \in BigSizes}

\* densities in tenths: below, at and above the clamp, and around the rounding points
SampleDensities == {-10, 0, 4, 5, 6, 10, 15, 20, 24, 25, 30, 39, 40, 41, 60, 100, 101, 130}

InitSampler ==
    /\ Mounted("a", 20)
    /\ explored = [fresh |-> 0, repeats |-> 0, failures |-> 0]
    /\ pc = "input"
    /\ raster \in SampleRasters
    /\ sDensity \in SampleDensities
    /\ step = 0
    /\ out1 = <<>>
    /\ out2 = <<>>
    /\ AnimIdle
    /\ AuxIdle

\* lines 151-155 alone: the step for (width, height, density)
CalcStep ==
    /\ pc = "input"
    /\ step' = GridStep(raster.width, raster.height, sDensity)
    /\ pc' = "step"
    /\ UNCHANGED <<compVars, rng, lastOp, raster, sDensity, out1, out2, animVars, auxVars>>

Samplable == raster.width <= MaxDim /\ raster.height <= MaxDim

\* the sampler on the raster
SampleOnce ==
    /\ pc = "step"
    /\ Samplable
    /\ out1' = <<Sample(raster, "a", sDensity, rng).result>>
    /\ rng' = Sample(raster, "a", sDensity, rng).rng
    /\ pc' = "once"
    /\ UNCHANGED <<compVars, lastOp, raster, sDensity, step, out2, animVars, auxVars>>

\* the sampler on the same raster again
SampleTwice ==
    /\ pc = "once"
    /\ out2' = <<Sample(raster, "a", sDensity, rng).result>>
    /\ rng' = Sample(raster, "a", sDensity, rng).rng
    /\ pc' = "twice"
    /\ UNCHANGED <<compVars, lastOp, raster, sDensity, step, out1, animVars, auxVars>>

\* lines 151-155 for the same raster and a density that is not smaller
CalcDenser ==
    /\ pc = "step"
    /\ denser = <<>>
    /\ \E density \in SampleDensities :
          /\ density >= sDensity
          /\ denser' = <<[density |-> density,
                          step    |-> GridStep(raster.width, raster.height, density),
                          result  |-> <<>>]>>
    /\ UNCHANGED <<compVars, rng, lastOp, pc, raster, sDensity, step, out1, out2, animVars, app>>

\* the sampler on the same raster at that density
SampleDenser ==
    /\ pc = "once"
    /\ denser # <<>>
    /\ denser[1].result = <<>>
    /\ denser' = <<[denser[1] EXCEPT
                      !.result = <<Sample(raster, "a", denser[1].density, rng).result>>]>>
    /\ rng' = Sample(raster, "a", denser[1].density, rng).rng
    /\ UNCHANGED <<compVars, lastOp, pc, raster, sDensity, step, out1, out2, animVars, app>>

NextSampler == CalcStep \/ SampleOnce \/ SampleTwice \/ CalcDenser \/ SampleDenser

SpecSampler == InitSampler /\ [][NextSampler]_vars

-----------------------------------------------------------------------------
(* SpecAnimator: the component holds and draws the dataset of ("a", 6);    *)
(* frames run; one vertex is shaded by the audio and the non-audio program *)
(* with the same uniforms and camera; the CPU variant loads the same image *)
(* and animates its buffer.                                                *)

\* the component after its first load for (src, cfg.density) has resolved and rendered
Loaded(src, cfg) ==
    \E r \in 0..(RngMod - 1) :
        LET density == cfg.density
            s       == Sample(ImageOf(src), src, density, r)
            key     == cacheKey(src, density)
        IN  /\ imageUrl = src
            /\ config = cfg
            /\ geometryData = <<s.result>>
            /\ error = NoError
            /\ effectPending = FALSE
            /\ inflight = <<>>
            /\ geometryCache = <<[key |-> key, value |-> s.result]>>
            /\ rng = s.rng
            /\ scene = Render(src, cfg, <<s.result>>, NoError)
            /\ uniforms = [uTime |-> 0]
            /\ clock = 0
            /\ effectRuns = 1
            /\ cacheLog = <<LogEntry("set", key)>>
            /\ lastOp = Op("ImgOnload", key, TRUE, TRUE)

\* config.depth and config.dispersion, audio bands, elapsed times: as floats
AnimDepths      == {0, 10 * Scale}
AnimDispersions == {-(Scale \div 2), 0, 2 * Scale}
AudioSamples    == {[low |-> 0, mid |-> 0, high |-> 0],
                    [low |-> 0, mid |-> 0, high |-> Scale \div 10],
                    [low |-> ((2 * Scale) \div 5), mid |-> ((3 * Scale) \div 5), high |-> Scale \div 5]}
Times           == {0, ((3 * Scale) \div 2)}

\* vertices that are not of the image: brightness 0.5 at the origin, seeds 0 and 0.9
Probes ==
    {[position |-> <<0, 0, 0>>, aBrightness |-> Scale \div 2, aRandom |-> r,
      aColor |-> <<Scale, Scale \div 2, 0>>] : r \in {0, ((9 * Scale) \div 10)}}

InitAnimator ==
    /\ \E depth \in AnimDepths, dispersion \in AnimDispersions :
          Loaded("a", [DefaultConfig(60) EXCEPT !.depth = depth, !.dispersion = dispersion])
    /\ AuxIdle
    /\ explored = [fresh |-> 0, repeats |-> 0, failures |-> 0]
    /\ pc = "anim"
    /\ raster = ImageOf("a")
    /\ sDensity = 60
    /\ step = 0
    /\ out1 = <<>>
    /\ out2 = <<>>
    /\ audioDataRef \in {<<audio>> : audio \in AudioSamples}
    /\ glUniforms = [InitialUniforms(config) EXCEPT !.uAudioLow  = audioDataRef[1].low,
                                                    !.uAudioMid  = audioDataRef[1].mid,
                                                    !.uAudioHigh = audioDataRef[1].high]
    /\ cpu = CpuUnmounted("a", [density |-> config.density, depth |-> config.depth,
                                dispersion |-> config.dispersion])
    /\ vertex \in {Attributes(geometryData[1], k) : k \in 1..Len(geometryData[1].brightness)}
                     \cup Probes
    /\ glOut = [audio |-> <<>>, plain |-> <<>>]
    /\ heap = <<>>

\* a frame of the drawn component before the vertex is shaded
TickAnim == pc = "anim" /\ Tick

LoadCpuStep ==
    /\ pc \in {"anim", "cpu"}
    /\ LoadCpu
    /\ pc' = "cpu"
    /\ UNCHANGED <<compVars, rng, raster, sDensity, step, out1, out2, glUniforms, vertex, glOut,
                   audioDataRef, auxVars>>

FrameCpuStep ==
    /\ pc \in {"anim", "cpu"}
    /\ \E time \in Times : FrameCpu(time)
    /\ pc' = "cpu"
    /\ UNCHANGED <<compVars, rng, raster, sDensity, step, out1, out2, glUniforms, vertex, glOut,
                   audioDataRef, auxVars>>

\* where the zoom may put the camera on the +z axis: the default position, in
\* the plane of the vertex, or one unit nearer to the origin than the vertex
CameraChoices(z) == {DefaultCamera} \cup {c \in {z, z - Scale} : c > 0}

\* the audio program draws the vertex
DrawAudio ==
    /\ pc \in {"anim", "cpu"}
    /\ materialRef
    /\ \E cameraZ \in CameraChoices(VertexAudio(vertex, DrawUniforms).z), undef \in DivByZero :
          glOut' = [glOut EXCEPT
                       !.audio = <<Shade("audio", vertex, DrawUniforms, cameraZ, undef)>>]
    /\ pc' = "audio"
    /\ lastOp' = Op("DrawAudio", "", FALSE, TRUE)
    /\ UNCHANGED <<compVars, rng, raster, sDensity, step, out1, out2, glUniforms, vertex,
                   cpu, heap, audioDataRef, auxVars>>

\* the non-audio program draws the same vertex with the same uniforms and camera
DrawPlain ==
    /\ pc = "audio"
    /\ \E undef \in DivByZero :
          glOut' = [glOut EXCEPT
                       !.plain = <<Shade("plain", vertex, DrawUniforms,
                                         glOut.audio[1].camera, undef)>>]
    /\ pc' = "plain"
    /\ lastOp' = Op("DrawPlain", "", FALSE, TRUE)
    /\ UNCHANGED <<compVars, rng, raster, sDensity, step, out1, out2, glUniforms, vertex,
                   cpu, heap, audioDataRef, auxVars>>

NextAnimator == TickAnim \/ LoadCpuStep \/ FrameCpuStep \/ DrawAudio \/ DrawPlain

SpecAnimator == InitAnimator /\ [][NextAnimator]_vars

-----------------------------------------------------------------------------
(* SpecDecode: the component under requests for an image that decodes and  *)
(* for one whose raster is empty (width 0), with loads that fail           *)

DecodeSrcs == {"a", "z"}

InitDecode ==
    /\ \E src \in DecodeSrcs, density \in Densities : Mounted(src, density)
    /\ explored = [fresh |-> 0, repeats |-> 0, failures |-> 0]
    /\ HarnessIdle

RequestDecode ==
    /\ effectRuns < MaxLoads
    /\ \E src \in DecodeSrcs, density \in Densities : SetProps(src, density)
    /\ UNCHANGED <<explored, harnessVars>>

NextDecode == RequestDecode \/ Effect \/ Hit \/ Onload \/ Onerror

SpecDecode == InitDecode /\ [][NextDecode]_vars

-----------------------------------------------------------------------------
(* SpecConfig: the component, with or without the audioDataRef prop, while *)
(* the sliders change the visual settings, the audio analyser writes the   *)
(* ref, the request changes and frames run                                 *)

\* <<size, depth, dispersion, brightness>>: the defaults, and the sliders at
\* their ends (size and dispersion at the maximum, depth and brightness at the minimum)
VisualConfigs ==
    {<<((4 * Scale) \div 5), 15 * Scale, 0, ((6 * Scale) \div 5)>>,
     <<2 * Scale, 0, 20 * Scale, 0>>}

\* what the analyser writes: silence or three bands with signal
AudioLevels ==
    {SilentAudio, [low |-> ((2 * Scale) \div 5), mid |-> ((3 * Scale) \div 5), high |-> Scale \div 5]}

InitConfig ==
    /\ \E density \in Densities : Mounted("a", density)
    /\ explored = [fresh |-> 0, repeats |-> 0, failures |-> 0]
    /\ pc = "idle"
    /\ raster = [width |-> 1, height |-> 1, kind |-> "opaque"]
    /\ sDensity = 10
    /\ step = 0
    /\ out1 = <<>>
    /\ out2 = <<>>
    /\ audioDataRef \in {<<>>, <<SilentAudio>>}
    /\ glUniforms = InitialUniforms(config)
    /\ vertex = <<>>
    /\ glOut = [audio |-> <<>>, plain |-> <<>>]
    /\ cpu = CpuUnmounted("a", [density |-> 10, depth |-> 0, dispersion |-> 0])
    /\ heap = <<>>
    /\ AuxIdle

\* a slider of Controls moves
ChangeConfig ==
    /\ \E v \in VisualConfigs : SetConfig(v[1], v[2], v[3], v[4])
    /\ UNCHANGED <<explored, harnessVars>>

\* AudioPlayer's analyser loop: audioDataRef.current = { low, mid, high }
WriteAudio ==
    /\ audioDataRef # <<>>
    /\ \E audio \in AudioLevels :
          /\ audio # audioDataRef[1]
          /\ audioDataRef' = <<audio>>
    /\ lastOp' = Op("WriteAudio", "", FALSE, TRUE)
    /\ UNCHANGED <<compVars, rng, pc, raster, sDensity, step, out1, out2, glUniforms, vertex,
                   glOut, cpu, heap, auxVars>>

RequestConfig ==
    /\ effectRuns < MaxConfigLoads
    /\ \E density \in Densities : SetProps("a", density)
    /\ UNCHANGED <<explored, harnessVars>>

TickConfig ==
    /\ clock < MaxTicks
    /\ Frame
    /\ UNCHANGED <<explored, pc, raster, sDensity, step, out1, out2, vertex, glOut, cpu, heap,
                   audioDataRef, auxVars>>

NextConfig ==
    ChangeConfig \/ WriteAudio \/ RequestConfig \/ TickConfig \/ Effect \/ Hit \/ Onload \/ Onerror

SpecConfig == InitConfig /\ [][NextConfig]_vars

-----------------------------------------------------------------------------
(* SpecMismatch: the CPU variant holds the dataset of image "a" at one of   *)
(* two densities and animates it; the race its length check is written for *)
(* happens: the geometry's position attribute is the buffer of the dataset *)
(* of the other density, shorter or longer than the dataset held.          *)

CpuDensities == {20, 60}

InitMismatch ==
    /\ Loaded("a", DefaultConfig(60))
    /\ AuxIdle
    /\ explored = [fresh |-> 0, repeats |-> 0, failures |-> 0]
    /\ pc = "cpu"
    /\ raster = ImageOf("a")
    /\ sDensity = 60
    /\ step = 0
    /\ out1 = <<>>
    /\ out2 = <<>>
    /\ glUniforms = InitialUniforms(config)
    /\ audioDataRef = <<SilentAudio>>
    /\ vertex = <<>>
    /\ glOut = [audio |-> <<>>, plain |-> <<>>]
    /\ \E density \in CpuDensities, depth \in AnimDepths, dispersion \in AnimDispersions :
          cpu = CpuUnmounted("a", [density |-> density, depth |-> depth,
                                   dispersion |-> dispersion])
    /\ heap = <<>>

\* the position attribute becomes the buffer of the dataset of another density
StaleBuffer ==
    /\ cpu.attributes # <<>>
    /\ Len(heap[cpu.attributes[1].position]) = Len(heap[cpu.geometryData[1].positions])
    /\ \E density \in CpuDensities \ {cpu.config.density} :
          heap' = Append(heap, SampleCpu(ImageOf(cpu.imageUrl), density).positions)
    /\ cpu' = [cpu EXCEPT !.attributes[1].position = Len(heap) + 1]
    /\ lastOp' = Op("StaleBuffer", "", TRUE, TRUE)

StaleBufferStep ==
    /\ StaleBuffer
    /\ UNCHANGED <<compVars, rng, pc, raster, sDensity, step, out1, out2, glUniforms, vertex,
                   glOut, audioDataRef, auxVars>>

NextMismatch == LoadCpuStep \/ FrameCpuStep \/ StaleBufferStep

SpecMismatch == InitMismatch /\ [][NextMismatch]_vars

-----------------------------------------------------------------------------
(* SpecKeys: the component under requests whose srcs may end in "-" and    *)
(* whose densities may be negative (the loader clamps them to 0.5)         *)

KeySrcs == {"a", "a-"}

KeyDensities == {-10, 10}          \* the densities -1 and 1

InitKeys ==
    /\ \E src \in KeySrcs, density \in KeyDensities : Mounted(src, density)
    /\ explored = [fresh |-> 0, repeats |-> 0, failures |-> 0]
    /\ HarnessIdle

RequestKeys ==
    /\ effectRuns < MaxLoads
    /\ \E src \in KeySrcs, density \in KeyDensities : SetProps(src, density)
    /\ UNCHANGED <<explored, harnessVars>>

NextKeys == RequestKeys \/ Effect \/ Hit \/ Onload \/ Onerror

SpecKeys == InitKeys /\ [][NextKeys]_vars

-----------------------------------------------------------------------------
(* SpecLive: the component under requests over Srcs x Densities, with the   *)
(* scheduling the runtime gives: React runs a pending effect, a resolved    *)
(* promise's callback is called, and the browser ends every image load     *)
(* with onload or onerror.                                                 *)

RequestLive ==
    /\ effectRuns < MaxLiveLoads
    /\ \E src \in Srcs, density \in Densities : SetProps(src, density)
    /\ UNCHANGED <<explored, harnessVars>>

NextLive == RequestLive \/ Effect \/ Hit \/ Onload \/ Onerror

SpecLive ==
    /\ Init
    /\ [][NextLive]_vars
    /\ WF_vars(Effect)
    /\ WF_vars(Hit)
    /\ WF_vars(Onload \/ Onerror)

-----------------------------------------------------------------------------
(* App and the Gemini service: the selected painting, the analysis requests *)
(* in flight and the analysis displayed.  A text carries, as `about`, the   *)
(* painting it describes ("" for a text that describes none).               *)

Paintings == {"starry-night", "mona-lisa", "custom-1"}

\* selectedPainting.id.startsWith('custom-')
IsCustom(id) == id \in {"custom-1"}

\* GEMINI_API_KEY in the environment: undefined, the empty string, or a key
Environments == {<<>>, <<"">>, <<"key">>}

\* getGeminiApiKey: the key if it is truthy, else undefined
getGeminiApiKey(env) == IF env # <<>> /\ env[1] # "" THEN env ELSE <<>>

\* what ai.models.generateContent does: a JSON text, an empty text, a text
\* that is not JSON, or a rejection
RemoteOutcomes == {"json", "empty", "garbage", "failure"}

\* the notice returned without a key; its mood is the notice of README line 46
NoKeyNotice == [analysis |-> "Gemini API key is not configured", mood |-> "API key not configured",
                about |-> ""]

Fallback == [analysis |-> "Could not retrieve analysis", mood |-> "Unknown", about |-> ""]

Sleepy == [analysis |-> "Gemini is taking a nap", mood |-> "Sleepy", about |-> ""]

CustomText(id) == [analysis |-> "This is a custom image uploaded by you",
                   mood |-> "Personal, Unique, Creative", about |-> id]

\* JSON.parse(response.text) of an answer to the prompt for the painting
GeminiAnswer(id) == [analysis |-> "analysis", mood |-> "mood", about |-> id]

\* an analyzePainting without the try / catch around the remote call
AnalyzeSettleUncaught(id, outcome) ==
    IF outcome = "json"
    THEN [state |-> "fulfilled", value |-> GeminiAnswer(id)]
    ELSE [state |-> "rejected", value |-> Fallback]

\* analyzePainting from the end of the remote call: how its promise settles
AnalyzeSettle(id, outcome) ==
    IF outcome = "json"
    THEN [state |-> "fulfilled", value |-> GeminiAnswer(id)]
    ELSE [state |-> "fulfilled", value |-> Fallback]

\* analyzePainting up to its first await: without a key it returns the
\* notice, with a key the remote call is made and the promise is pending
AnalyzeStart(id, env) ==
    IF getGeminiApiKey(env) = <<>>
    THEN [painting |-> id, promise |-> <<[state |-> "fulfilled", value |-> NoKeyNotice]>>,
          remote |-> FALSE]
    ELSE [painting |-> id, promise |-> <<>>, remote |-> TRUE]

AppMounted(env) ==
    [env |-> env, selectedPainting |-> "starry-night", aiData |-> <<>>, isLoadingAI |-> FALSE,
     effectPending |-> TRUE, calls |-> <<>>, remoteCalls |-> 0, selects |-> 0]

\* onSelectPainting / handleImageUpload: setSelectedPainting(p)
SelectPainting(id) ==
    /\ ~app.effectPending
    /\ id # app.selectedPainting
    /\ app' = [app EXCEPT !.selectedPainting = id, !.effectPending = TRUE, !.selects = @ + 1]
    /\ lastOp' = Op("SelectPainting", id, FALSE, TRUE)

\* the effect on [selectedPainting]: fetchAI up to its await
FetchAI ==
    /\ app.effectPending
    /\ IF IsCustom(app.selectedPainting)
       THEN app' = [app EXCEPT !.effectPending = FALSE,
                               !.aiData = <<CustomText(app.selectedPainting)>>]
       ELSE LET call == AnalyzeStart(app.selectedPainting, app.env)
            IN  app' = [app EXCEPT !.effectPending = FALSE,
                                   !.isLoadingAI = TRUE,
                                   !.aiData = <<>>,
                                   !.calls = Append(@, call),
                                   !.remoteCalls = IF call.remote THEN @ + 1 ELSE @]
    /\ lastOp' = Op("FetchAI", app.selectedPainting, FALSE, TRUE)

\* the remote call of calls[i] ends; analyzePainting runs to its return
RemoteReturns(i, outcome) ==
    /\ app.calls[i].promise = <<>>
    /\ app' = [app EXCEPT !.calls[i].promise = <<AnalyzeSettle(app.calls[i].painting, outcome)>>]
    /\ lastOp' = Op("RemoteReturns", app.calls[i].painting, FALSE, outcome = "json")

\* fetchAI resumes after await analyzePainting: setAiData, finally setIsLoadingAI(false)
FetchAIResume(i) ==
    /\ app.calls[i].promise # <<>>
    /\ app' = [app EXCEPT
                  !.aiData = IF app.calls[i].promise[1].state = "fulfilled"
                             THEN <<app.calls[i].promise[1].value>>
                             ELSE <<Sleepy>>,
                  !.isLoadingAI = FALSE,
                  !.calls = RemoveAt(@, i)]
    /\ lastOp' = Op("FetchAIResume", app.calls[i].painting, FALSE,
                    app.calls[i].promise[1].state = "fulfilled")

-----------------------------------------------------------------------------
(* SpecApp: App with any of the environments; paintings are selected while *)
(* analysis requests are in flight and end in any order and any way        *)

appFrame == <<compVars, rng, pc, raster, sDensity, step, out1, out2, animVars, denser>>

InitApp ==
    /\ Mounted("a", 20)
    /\ explored = [fresh |-> 0, repeats |-> 0, failures |-> 0]
    /\ pc = "idle"
    /\ raster = [width |-> 1, height |-> 1, kind |-> "opaque"]
    /\ sDensity = 10
    /\ step = 0
    /\ out1 = <<>>
    /\ out2 = <<>>
    /\ AnimIdle
    /\ denser = <<>>
    /\ app \in {AppMounted(env) : env \in Environments}

Select ==
    /\ app.selects < MaxSelects
    /\ \E id \in Paintings : SelectPainting(id)
    /\ UNCHANGED appFrame

Fetch == FetchAI /\ UNCHANGED appFrame

Returns ==
    \E i \in 1..Len(app.calls), outcome \in RemoteOutcomes :
        RemoteReturns(i, outcome) /\ UNCHANGED appFrame

Resume == \E i \in 1..Len(app.calls) : FetchAIResume(i) /\ UNCHANGED appFrame

NextApp == Select \/ Fetch \/ Returns \/ Resume

SpecApp == InitApp /\ [][NextApp]_vars

-----------------------------------------------------------------------------
(* Claims *)

\* the held dataset was built for the current request
Match ==
    /\ geometryData # <<>>
    /\ geometryData[1].src = imageUrl
    /\ geometryData[1].density = config.density

\* C1: particles are drawn only while the held dataset's src and density equal
\* the current imageUrl and config.density; in every other state the component
\* draws zero particles and no step (the frame step included) changes the uniforms.
C1_StalenessGuard ==
    /\ [](scene.count > 0 => Match)
    /\ [](~Match => scene.count = 0 /\ scene.kind # "points")
    /\ [][~Match => uniforms' = uniforms /\ glUniforms' = glUniforms]_vars

\* a dataset with particles is held for another request, nothing is drawn, a frame has just run
C1_Witness ==
    /\ geometryData # <<>>
    /\ Len(geometryData[1].brightness) > 0
    /\ error = NoError
    /\ ~Match
    /\ scene.count = 0
    /\ lastOp.op = "Frame"

\* the promise inflight[i] is delivered by this step
Delivered(i) ==
    /\ i \in 1..Len(inflight)
    /\ lastOp'.op \in {"HitDeliver", "ImgOnload", "ImgOnerror"}
    /\ lastOp'.key = cacheKey(inflight[i].src, inflight[i].density)
    /\ lastOp'.mounted = inflight[i].isMounted
    /\ inflight' = RemoveAt(inflight, i)

Building == {i \in 1..Len(inflight) : inflight[i].settled = <<>>}

\* C3: at no time are two decode-and-sample builds in flight for the same key.
C3_NoDuplicateBuild ==
    \A i, j \in Building :
        cacheKey(inflight[i].src, inflight[i].density)
            = cacheKey(inflight[j].src, inflight[j].density) => i = j

-----------------------------------------------------------------------------
(* Cache claims *)

\* the keys of the geometryCache.set calls so far, in order
SetKeys == SelectSeq(cacheLog, LAMBDA e : e.op = "set")

KeySeq(cache) == [i \in 1..Len(cache) |-> cache[i].key]

\* C4: the cache never holds more than 10 entries (and no key twice); after 11
\* successful loads with 11 distinct keys it holds exactly 10 entries and the
\* key stored first is absent.
C4_CacheBound ==
    /\ Len(geometryCache) <= 10
    /\ Cardinality(CacheKeys(geometryCache)) = Len(geometryCache)
    /\ (Len(SetKeys) = 11 /\ Cardinality({SetKeys[i].key : i \in 1..11}) = 11)
          => /\ Len(geometryCache) = 10
             /\ SetKeys[1].key \notin CacheKeys(geometryCache)

\* eleven loads with eleven distinct keys have succeeded
C4_Witness ==
    /\ Len(SetKeys) = 11
    /\ Cardinality({SetKeys[i].key : i \in 1..11}) = 11
    /\ Len(geometryCache) = 10

\* The keys a first-in-first-out store of capacity 10 holds, oldest first, after
\* the first n entries of the log: a hit changes nothing, a set of a held key
\* changes nothing, a set of a new key adds it as the newest and, if that makes
\* 11, drops the oldest.
RECURSIVE FifoKeys(_, _)
FifoKeys(log, n) ==
    IF n = 0 THEN <<>>
    ELSE LET prev == FifoKeys(log, n - 1)
             e    == log[n]
         IN  IF e.op = "hit" \/ e.key \in {prev[i] : i \in 1..Len(prev)} THEN prev
             ELSE IF Len(prev) = 10 THEN Append(Tail(prev), e.key)
             ELSE Append(prev, e.key)

\* C5: the cache holds the keys in order of insertion and an insertion that
\* makes 11 evicts exactly the earliest-inserted key; cache hits never change
\* the order (first in, first out; not least recently used).
C5_FifoEviction == KeySeq(geometryCache) = FifoKeys(cacheLog, Len(cacheLog))

\* the key stored first was read again by a cache hit and was still the one evicted
C5_Witness ==
    /\ Len(SetKeys) = 11
    /\ \E q \in 1..Len(cacheLog) :
          cacheLog[q].op = "hit" /\ cacheLog[q].key = SetKeys[1].key
    /\ SetKeys[1].key \notin CacheKeys(geometryCache)
    /\ Len(geometryCache) = 10

\* C6: a request whose key is in the cache resolves to exactly the cached
\* dataset, starts no Image load, draws no random number and leaves the cache
\* as it is; a request whose key is absent starts a load, and when that load
\* succeeds the cache maps exactly that key to the dataset sampled for the
\* request's src and density, which is also what the promise resolves to.
C6_GetOrBuild ==
    [][/\ lastOp'.op = "RunEffect" =>
            LET key == cacheKey(imageUrl, config.density)
                p   == inflight'[Len(inflight')]
            IN  /\ geometryCache' = geometryCache
                /\ rng' = rng
                /\ p.src = imageUrl /\ p.density = config.density
                /\ IF key \in CacheKeys(geometryCache)
                   THEN \E i \in 1..Len(geometryCache) :
                            /\ geometryCache[i].key = key
                            /\ p.settled = <<geometryCache[i].value>>
                   ELSE p.settled = <<>>
       /\ lastOp'.op = "HitDeliver" =>
            /\ geometryCache' = geometryCache
            /\ rng' = rng
            /\ \E i \in 1..Len(inflight) :
                  /\ Delivered(i)
                  /\ inflight[i].settled # <<>>
                  /\ inflight[i].isMounted => geometryData' = inflight[i].settled
       /\ (lastOp'.op = "ImgOnload" /\ lastOp'.ok) =>
            \E i \in 1..Len(inflight), j \in 1..Len(geometryCache') :
                LET l == inflight[i]
                    v == geometryCache'[j].value
                IN  /\ Delivered(i)
                    /\ l.settled = <<>>
                    /\ geometryCache'[j].key = cacheKey(l.src, l.density)
                    /\ v = Sample(ImageOf(l.src), l.src, l.density, rng).result
                    /\ v.src = l.src /\ v.density = l.density
                    /\ l.isMounted => geometryData' = <<v>>
                    /\ \A k \in 1..Len(geometryCache') :
                          k # j => geometryCache'[k] \in {geometryCache[m] : m \in 1..Len(geometryCache)}
      ]_vars

\* a request has been answered from the cache and its dataset is drawn
C6_Witness ==
    /\ lastOp.op = "HitDeliver"
    /\ lastOp.mounted
    /\ Match
    /\ scene.count > 0
    /\ Len(SetKeys) >= 2

-----------------------------------------------------------------------------
(* Sampler claims *)

\* the density clamped to [0.5, 10], in tenths
Clamped == IF sDensity < 5 THEN 5 ELSE IF sDensity > 100 THEN 100 ELSE sDensity

BigRaster == raster.width * raster.height > 2000000

\* C7: the step is max(1, round(6 / clamped density)), raised to 2 when the
\* raster has more than 2,000,000 pixels; it is an integer of 1..12, and at
\* least 2 on such a raster.  (round(q) = r iff r - 1/2 <= q < r + 1/2.)
C7_GridStep ==
    pc # "input" =>
        /\ step \in 1..12
        /\ BigRaster => step >= 2
        /\ \E r \in 0..12 :
              /\ (2 * r - 1) * Clamped <= 120
              /\ 120 < (2 * r + 1) * Clamped
              /\ step = IF BigRaster /\ r < 2 THEN 2 ELSE IF r < 1 THEN 1 ELSE r

\* a raster of more than 2,000,000 pixels at a density whose own step is 1
C7_Witness ==
    /\ pc = "step"
    /\ BigRaster
    /\ sDensity = 100
    /\ step = 2

\* the pixels the grid visits, and the alpha byte of a pixel
Grid ==
    {g \in (0..(raster.width - 1)) \X (0..(raster.height - 1)) :
        g[1] % step = 0 /\ g[2] % step = 0}

AlphaOf(g) == PixelAt(raster, g[1], g[2])[4]

\* the pixel a particle of dataset d was made from, read back from its position
SourcePixel(d, k) ==
    <<(d.positions[3 * k - 2] + raster.width) \div 2,
      (raster.height - d.positions[3 * k - 1]) \div 2>>

InClearQuadrant(g) == 2 * g[1] < raster.width /\ 2 * g[2] < raster.height

\* C8: every particle comes from a grid pixel whose alpha byte is at least 26
\* (alpha/255 >= 0.1), and every such grid pixel yields exactly one particle;
\* a raster whose top-left quadrant is fully transparent yields no particle in
\* that quadrant and one particle for every grid pixel outside it.
C8_AlphaCut ==
    out1 # <<>> =>
        LET d == out1[1]
            n == Len(d.brightness)
        IN  /\ \A k \in 1..n : SourcePixel(d, k) \in Grid /\ AlphaOf(SourcePixel(d, k)) >= 26
            /\ \A g \in Grid :
                  AlphaOf(g) >= 26 => Cardinality({k \in 1..n : SourcePixel(d, k) = g}) = 1
            /\ raster.kind = "quadrant" =>
                  /\ \A k \in 1..n : ~InClearQuadrant(SourcePixel(d, k))
                  /\ n = Cardinality({g \in Grid : ~InClearQuadrant(g)})

\* a 4 x 4 raster with a transparent quadrant sampled at step 1: 12 particles
C8_Witness ==
    /\ out1 # <<>>
    /\ raster = [width |-> 4, height |-> 4, kind |-> "quadrant"]
    /\ step = 1
    /\ Len(out1[1].brightness) = 12

Parallel(d) ==
    /\ Len(d.positions) = 3 * Len(d.brightness)
    /\ Len(d.colors) = 3 * Len(d.brightness)
    /\ Len(d.randoms) = Len(d.brightness)

\* C9: every sampled dataset has the same particle count in its four arrays:
\* positions.length / 3 = colors.length / 3 = brightness.length = randoms.length.
C9_ParallelArrays ==
    /\ out1 # <<>> => Parallel(out1[1])
    /\ out2 # <<>> => Parallel(out2[1])

\* a dataset of some particles from a raster of which some grid pixels were skipped
C9_Witness ==
    /\ out1 # <<>>
    /\ Len(out1[1].brightness) >= 2
    /\ Len(out1[1].brightness) < Cardinality(Grid)

\* C10: two samplings of the same raster with the same density give the same
\* positions, colors and brightness, in the same order, whatever the seeds.
C10_Deterministic ==
    pc = "twice" =>
        /\ out1[1].positions = out2[1].positions
        /\ out1[1].colors = out2[1].colors
        /\ out1[1].brightness = out2[1].brightness

\* two samplings of several particles whose seeds differ
C10_Witness ==
    /\ pc = "twice"
    /\ Len(out1[1].brightness) >= 2
    /\ out1[1].randoms # out2[1].randoms

CeilDiv(a, b) == (a + b - 1) \div b

\* the k-th pixel of the grid in row-major order (ascending y, then x), k from 1
GridPixel(k) ==
    LET cols == CeilDiv(raster.width, step)
    IN  <<((k - 1) % cols) * step, ((k - 1) \div cols) * step>>

\* C11: a fully opaque width x height raster sampled with step s gives
\* ceil(width/s) * ceil(height/s) particles in row-major order (ascending y,
\* then x), and the brightness of each is (r+g+b)/3 of its source pixel with
\* the channels divided by 255 (r+g+b in units of 1/765).
C11_OpaqueGrid ==
    (out1 # <<>> /\ raster.kind = "opaque") =>
        LET d == out1[1]
            n == Len(d.brightness)
        IN  /\ n = CeilDiv(raster.width, step) * CeilDiv(raster.height, step)
            /\ \A k \in 1..n :
                  LET g  == GridPixel(k)
                      px == PixelAt(raster, g[1], g[2])
                  IN  /\ SourcePixel(d, k) = g
                      /\ d.brightness[k] = px[1] + px[2] + px[3]
                      /\ <<d.colors[3 * k - 2], d.colors[3 * k - 1], d.colors[3 * k]>>
                             = <<px[1], px[2], px[3]>>

\* the 4 x 4 opaque raster at density 10 (step 1): exactly 16 particles
C11_Witness ==
    /\ out1 # <<>>
    /\ raster = [width |-> 4, height |-> 4, kind |-> "opaque"]
    /\ sDensity = 100
    /\ step = 1
    /\ Len(out1[1].brightness) = 16

-----------------------------------------------------------------------------
(* Animator claims *)

\* the positions array of the dataset the CPU variant holds
CpuBase == heap[cpu.geometryData[1].positions]

\* the position buffer the CPU variant's frame callback writes
CpuBuffer == heap[cpu.attributes[1].position]

\* C12: every particle of every produced dataset has x = (pixelX - width/2) * 0.1,
\* y = -(pixelY - height/2) * 0.1 and z = 0; the stored z never carries
\* brightness.  (The datasets here are of the opaque image "a" at step 1, so
\* particle k comes from pixel ((k-1) % width, (k-1) \div width).)
C12_StaticLayout ==
    LET img == ImageOf("a")
        px(k) == (k - 1) % img.width
        py(k) == (k - 1) \div img.width
    IN  /\ geometryData # <<>> =>
              \A k \in 1..Len(geometryData[1].brightness) :
                  /\ geometryData[1].positions[3 * k - 2] = 2 * px(k) - img.width
                  /\ geometryData[1].positions[3 * k - 1] = -(2 * py(k) - img.height)
                  /\ geometryData[1].positions[3 * k] = 0
        /\ cpu.geometryData # <<>> =>
              \A k \in 1..(Len(CpuBase) \div 3) :
                  /\ CpuBase[3 * k - 2] = ((2 * px(k) - img.width) * Scale) \div 20
                  /\ CpuBase[3 * k - 1] = -(((2 * py(k) - img.height) * Scale) \div 20)
                  /\ CpuBase[3 * k] = 0

\* C13: the base depth term is brightness * depth * (1 + low * 0.5); with
\* brightness 0.5, depth 10, low 0 and dispersion 0 it is exactly 5.0, before
\* the wave term is added.  (depth is a whole number here, so the product is
\* exact in fixed point.)
C13_DepthTerm ==
    glOut.audio # <<>> =>
        LET o == glOut.audio[1].pos
            u == DrawUniforms
        IN  /\ o.zDepth = (vertex.aBrightness * (u.uDepth \div Scale) * (2 * Scale + u.uAudioLow))
                              \div (2 * Scale)
            /\ o.z = o.zDepth + o.scatter + o.wave
            /\ (/\ vertex.aBrightness = Scale \div 2
                /\ u.uDepth = 10 * Scale
                /\ u.uAudioLow = 0
                /\ u.uAudioHigh = 0
                /\ u.uDispersion = 0) => o.zDepth = 5 * Scale /\ o.scatter = 0

\* brightness 0.5, depth 10, no audio, no dispersion: the depth term is 5.0
C13_Witness ==
    /\ glOut.audio # <<>>
    /\ vertex.aBrightness = Scale \div 2
    /\ DrawUniforms.uDepth = 10 * Scale
    /\ DrawUniforms.uAudioLow = 0
    /\ DrawUniforms.uAudioHigh = 0
    /\ DrawUniforms.uDispersion = 0
    /\ glOut.audio[1].pos.zDepth = 5 * Scale
    /\ glOut.audio[1].pos.wave # 0

Silent ==
    /\ DrawUniforms.uAudioLow = 0
    /\ DrawUniforms.uAudioMid = 0
    /\ DrawUniforms.uAudioHigh = 0

\* C14: with low = mid = high = 0 the audio program computes the same displaced
\* position and the same colour as the non-audio program, for every vertex,
\* config and time.
C14_SilentAudioIsPlain ==
    (glOut.audio # <<>> /\ glOut.plain # <<>> /\ Silent) =>
        LET a == glOut.audio[1]
            p == glOut.plain[1]
        IN  /\ <<a.pos.x, a.pos.y, a.pos.z>> = <<p.pos.x, p.pos.y, p.pos.z>>
            /\ a.color = p.color
            /\ a.mvZ = p.mvZ

\* both programs have drawn a vertex that the dispersion displaced, at a time > 0, without audio
C14_Witness ==
    /\ glOut.audio # <<>>
    /\ glOut.plain # <<>>
    /\ Silent
    /\ uniforms.uTime > 0
    /\ DrawUniforms.uDepth > 0
    /\ glOut.plain[1].pos.x # vertex.position[1]
    /\ glOut.plain[1].pos.wave # 0
    /\ glOut.plain[1].color[1] > 0

\* C15: whenever dispersion + high * 5 <= 0 the animator leaves x and y at the
\* static grid position and adds no scatter to z, and the depth and the wave
\* terms are still applied.
C15_NoDispersion ==
    (glOut.audio # <<>> /\ DrawUniforms.uDispersion + 5 * DrawUniforms.uAudioHigh <= 0) =>
        LET o == glOut.audio[1].pos
            u == DrawUniforms
        IN  /\ o.x = vertex.position[1]
            /\ o.y = vertex.position[2]
            /\ o.scatter = 0
            /\ o.zDepth = (vertex.aBrightness * (u.uDepth \div Scale) * (2 * Scale + u.uAudioLow))
                              \div (2 * Scale)
            /\ o.wave = (Sin((vertex.position[1] * 50) \div Scale + u.uTime)
                            * (1500 + 8 * u.uAudioLow)) \div Scale
            /\ o.z = o.zDepth + o.wave

\* treble cancels a negative dispersion exactly (effective dispersion 0): no
\* displacement, and both the depth and the wave term are there
C15_Witness ==
    /\ glOut.audio # <<>>
    /\ DrawUniforms.uAudioHigh > 0
    /\ DrawUniforms.uDispersion + 5 * DrawUniforms.uAudioHigh = 0
    /\ vertex.aRandom > 0
    /\ glOut.audio[1].pos.zDepth > 0
    /\ glOut.audio[1].pos.wave # 0
    /\ glOut.audio[1].pos.x = vertex.position[1]

\* the random factor and the scatter of particle i (from 0) in the CPU animator
CpuRandomFactor(i) == ((Sin(i * 78233) + Scale) * 500) \div Scale

CpuScatter(i) ==
    IF cpu.config.dispersion > 0
    THEN ((((CpuRandomFactor(i) - 500) * 2 * cpu.config.dispersion) \div Scale) * 5000) \div Scale
    ELSE 0

\* C16: the wave term sin(x * 0.05 + t) * waveAmp is evaluated on the x after
\* the dispersion displacement, in both shader programs and in the CPU animator.
C16_WaveOnDisplacedX ==
    /\ glOut.audio # <<>> =>
          LET o == glOut.audio[1].pos
          IN  /\ o.wave = (Sin((o.x * 50) \div Scale + DrawUniforms.uTime)
                              * (1500 + 8 * DrawUniforms.uAudioLow)) \div Scale
              /\ o.z = o.zDepth + o.scatter + o.wave
    /\ glOut.plain # <<>> =>
          LET o == glOut.plain[1].pos
          IN  /\ o.wave = (Sin((o.x * 50) \div Scale + DrawUniforms.uTime) * 1500) \div Scale
              /\ o.z = o.zDepth + o.scatter + o.wave
    /\ (lastOp.op = "FrameCpu" /\ lastOp.ok) =>
          \A i \in 0..((Len(CpuBuffer) \div 3) - 1) :
              CpuBuffer[3 * i + 3] =
                  (CpuBase[3 * i + 3] * cpu.config.depth) \div Scale
                  + CpuScatter(i)
                  + (Sin((CpuBuffer[3 * i + 1] * 50) \div Scale + cpu.time) * 1500) \div Scale

\* a vertex was displaced far enough for the wave to differ from the wave at
\* its static x, after the CPU animator has displaced its particles too
C16_Witness ==
    /\ glOut.audio # <<>>
    /\ glOut.audio[1].pos.x # vertex.position[1]
    /\ glOut.audio[1].pos.wave #
           (Sin((vertex.position[1] * 50) \div Scale + DrawUniforms.uTime)
               * (1500 + 8 * DrawUniforms.uAudioLow)) \div Scale
    /\ cpu.frames > 0
    /\ cpu.attributes # <<>>
    /\ cpu.config.dispersion > 0
    /\ \E i \in 0..((Len(CpuBuffer) \div 3) - 1) : CpuBuffer[3 * i + 1] # CpuBase[3 * i + 1]

\* C17: the computed point size is finite and positive for every camera
\* distance, including zero and a particle behind the camera plane.
C17_PointSizePositive ==
    /\ glOut.audio # <<>> => glOut.audio[1].size.finite /\ glOut.audio[1].size.value > 0
    /\ glOut.plain # <<>> => glOut.plain[1].size.finite /\ glOut.plain[1].size.value > 0

\* C20: a frame never writes to a dataset: the held and the cached datasets of
\* the drawn component, and the positions and colors arrays of the CPU
\* variant's dataset, are the same after every frame step.
C20_FramesLeaveDatasets ==
    [][lastOp'.op \in {"Frame", "FrameCpu"} =>
          /\ geometryData' = geometryData
          /\ geometryCache' = geometryCache
          /\ inflight' = inflight
          /\ cpu'.geometryData = cpu.geometryData
          /\ cpu.geometryData # <<>> =>
                /\ heap'[cpu.geometryData[1].positions] = heap[cpu.geometryData[1].positions]
                /\ heap'[cpu.geometryData[1].colors] = heap[cpu.geometryData[1].colors]
      ]_vars

\* two frames of the CPU animator have displaced the particles in the render
\* buffer, and a frame of the drawn component has run
C20_Witness ==
    /\ lastOp.op = "FrameCpu"
    /\ lastOp.ok
    /\ cpu.frames = 2
    /\ cpu.config.dispersion > 0
    /\ uniforms.uTime > 0
    /\ \E j \in 1..Len(CpuBuffer) : CpuBuffer[j] # CpuBase[j]

-----------------------------------------------------------------------------
(* Failure claims *)

\* this step delivers a failure to the load of the current request
FailsCurrent ==
    /\ lastOp'.op \in {"ImgOnload", "ImgOnerror"}
    /\ ~lastOp'.ok
    /\ lastOp'.mounted

\* C18: when the load of the current request fails the component enters an
\* error state: the dataset is cleared and no particles are drawn; while the
\* error lasts no load is started unless new props have been rendered (no
\* retry of its own); and the effect of a new (imageUrl, density) clears the error.
C18_ErrorState ==
    /\ [][FailsCurrent => error' # NoError /\ geometryData' = <<>>]_vars
    /\ [](error # NoError =>
             geometryData = <<>> /\ scene.kind = "Text" /\ scene.count = 0)
    /\ [][(error # NoError /\ ~effectPending /\ lastOp'.op # "SetProps") =>
             /\ error' = error
             /\ effectRuns' = effectRuns
             /\ Len(inflight') <= Len(inflight)]_vars
    /\ [][lastOp'.op = "RunEffect" =>
             /\ effectPending
             /\ error' = NoError
             /\ scene'.kind # "Text"]_vars

\* the load of the current request failed after an earlier request had been
\* loaded and cached: the error is shown, nothing is held, nothing is loading
C18_Witness ==
    /\ lastOp.op = "ImgOnerror"
    /\ lastOp.mounted
    /\ error = "Failed to load image"
    /\ geometryData = <<>>
    /\ scene.kind = "Text"
    /\ Len(geometryCache) > 0
    /\ inflight = <<>>
    /\ ~effectPending

FailureMessages == {"Failed to get 2D context", "IndexSizeError", "Failed to load image"}

\* C19: a load that cannot decode its raster (image error, no 2D context,
\* exception while reading the pixels, zero width or height) fails: it leaves
\* the cache, its history and the random generator as they were and yields no
\* dataset; its request, if still current, gets an error and holds nothing.
C19_DecodeFailure ==
    [][lastOp'.op \in {"ImgOnload", "ImgOnerror"} =>
          \E i \in 1..Len(inflight) :
              LET l   == inflight[i]
                  img == ImageOf(l.src)
              IN  /\ Delivered(i)
                  /\ l.settled = <<>>
                  /\ (lastOp'.op = "ImgOnerror" \/ img.width = 0 \/ img.height = 0)
                         => ~lastOp'.ok
                  /\ ~lastOp'.ok =>
                         /\ geometryCache' = geometryCache
                         /\ cacheLog' = cacheLog
                         /\ rng' = rng
                         /\ IF l.isMounted
                            THEN geometryData' = <<>> /\ error' \in FailureMessages
                            ELSE geometryData' = geometryData /\ error' = error
      ]_vars

\* the image with an empty raster has just failed to load for the current
\* request, with a dataset of another request in the cache
C19_Witness ==
    /\ lastOp.op = "ImgOnload"
    /\ ~lastOp.ok
    /\ lastOp.mounted
    /\ imageUrl = "z"
    /\ lastOp.key = cacheKey("z", config.density)
    /\ error = "IndexSizeError"
    /\ geometryData = <<>>
    /\ Len(geometryCache) > 0
    /\ \A i \in 1..Len(geometryCache) : geometryCache[i].value.src # "z"


\* the visual settings of config and the uniforms that carry them
VisualOf(cfg) == <<cfg.size, cfg.depth, cfg.dispersion, cfg.brightness>>

UniformsOf(u) == <<u.uSize, u.uDepth, u.uDispersion, u.uBrightness>>

\* C21: a change of size, depth, dispersion or brightness starts no load and
\* leaves the held dataset, the error, the cache and the pending effect as
\* they were; an effect (and so a load) becomes pending only when imageUrl or
\* density changes and a load starts only from a pending effect; a frame that
\* draws leaves the uniforms equal to the config values
C21_ConfigChange ==
    /\ [][lastOp'.op = "SetConfig" =>
             /\ inflight' = inflight
             /\ effectPending' = effectPending
             /\ effectRuns' = effectRuns
             /\ geometryData' = geometryData
             /\ error' = error
             /\ geometryCache' = geometryCache
             /\ cacheLog' = cacheLog]_vars
    /\ [][effectPending' /\ ~effectPending =>
             <<imageUrl', config'.density>> # <<imageUrl, config.density>>]_vars
    /\ [][Len(inflight') > Len(inflight) \/ effectRuns' # effectRuns => effectPending]_vars
    /\ [](lastOp.op = "Frame" /\ lastOp.ok => UniformsOf(glUniforms) = VisualOf(config))

\* the sliders moved away from the defaults while a dataset was drawn, and the
\* frame that followed has written the new values
C21_Witness ==
    /\ lastOp.op = "Frame"
    /\ lastOp.ok
    /\ Match
    /\ VisualOf(config) # VisualOf(DefaultConfig(config.density))
    /\ UniformsOf(glUniforms) = VisualOf(config)
    /\ effectRuns = 1
    /\ Len(cacheLog) = 1

\* C22: without the audioDataRef prop the three audio uniforms are 0 in
\* every state, whatever frames have run
C22_NoAudioSource ==
    audioDataRef = <<>> =>
        /\ glUniforms.uAudioLow = 0
        /\ glUniforms.uAudioMid = 0
        /\ glUniforms.uAudioHigh = 0

\* no audio source, and the last of several frames has just written the uniforms
C22_Witness ==
    /\ audioDataRef = <<>>
    /\ lastOp.op = "Frame"
    /\ lastOp.ok
    /\ clock = MaxTicks
    /\ glUniforms.uAudioLow = 0
    /\ UniformsOf(glUniforms) # VisualOf(DefaultConfig(config.density))

\* the promises of analyzePainting that have settled, and all of them
SettledCalls == {i \in 1..Len(app.calls) : app.calls[i].promise # <<>>}

\* C23: without a configured key no remote call is made and analyzePainting
\* resolves to the notice; with or without a key, however the remote call
\* ends, the promise of analyzePainting is never rejected
C23_AnalyzeNeverRejects ==
    /\ getGeminiApiKey(app.env) = <<>> =>
          /\ app.remoteCalls = 0
          /\ \A i \in 1..Len(app.calls) :
                /\ app.calls[i].promise # <<>>
                /\ app.calls[i].promise[1].value = NoKeyNotice
          /\ app.aiData # <<>> => app.aiData[1].mood \in {NoKeyNotice.mood, CustomText("").mood}
    /\ \A i \in SettledCalls : app.calls[i].promise[1].state = "fulfilled"
    /\ app.aiData # <<>> => app.aiData[1] # Sleepy

\* the key is the empty string, a second painting was selected and its request has resolved: the notice is shown
C23_Witness ==
    /\ app.env = <<"">>
    /\ app.selects >= 1
    /\ app.remoteCalls = 0
    /\ lastOp.op = "FetchAIResume"
    /\ app.aiData = <<NoKeyNotice>>

\* no analysis request is in flight and no effect is pending
AppQuiet == app.calls = <<>> /\ ~app.effectPending

\* C30: once all requests have resolved, the text displayed is not about a
\* painting other than the selected one
C30_AnalysisOfSelected ==
    AppQuiet /\ app.aiData # <<>> => app.aiData[1].about \in {"", app.selectedPainting}

\* C24: a key that is cached before and after a step maps to the same dataset
\* (same positions, colors, brightness and seeds) in both states
C24_EntryNeverOverwritten ==
    [][\A i \in 1..Len(geometryCache), j \in 1..Len(geometryCache') :
          geometryCache[i].key = geometryCache'[j].key =>
              geometryCache[i].value = geometryCache'[j].value]_vars

\* C25: for the same raster and densities d1 <= d2 the step for d1 is at
\* least the step for d2, and a fully opaque raster sampled at d2 gives at
\* least as many particles as at d1
C25_StepMonotone ==
    denser # <<>> /\ pc # "input" =>
        /\ sDensity <= denser[1].density
        /\ step >= denser[1].step
        /\ out1 # <<>> /\ denser[1].result # <<>> /\ raster.kind = "opaque" =>
               Len(out1[1].brightness) <= Len(denser[1].result[1].brightness)

\* an opaque raster sampled at two densities with different steps: the
\* larger density has the smaller step and strictly more particles
C25_Witness ==
    /\ denser # <<>>
    /\ out1 # <<>>
    /\ denser[1].result # <<>>
    /\ raster.kind = "opaque"
    /\ sDensity < denser[1].density
    /\ step > denser[1].step
    /\ Len(out1[1].brightness) < Len(denser[1].result[1].brightness)

\* the render buffer and the dataset's positions differ in length
Mismatched ==
    /\ cpu.attributes # <<>>
    /\ cpu.geometryData # <<>>
    /\ Len(CpuBuffer) # Len(CpuBase)

\* C26: a frame of the CPU animator that finds the render buffer and the
\* dataset's positions of different lengths writes no element of any buffer
\* and accesses no index past the end of a buffer
C26_MismatchSkipsFrame ==
    /\ [][lastOp'.op = "FrameCpu" /\ Mismatched =>
             /\ heap' = heap
             /\ cpu'.attributes = cpu.attributes
             /\ ~lastOp'.ok]_vars
    /\ [](~cpu.oob)

\* a frame has just been skipped because the render buffer is shorter than
\* the dataset's positions
C26_Witness ==
    /\ lastOp.op = "FrameCpu"
    /\ lastOp.mounted
    /\ ~lastOp.ok
    /\ Mismatched
    /\ Len(CpuBuffer) < Len(CpuBase)

\* the displacement of particle i (from 0) in x and in y at the time of the last frame
CpuShift(i) ==
    LET noiseX == (Sin(i * 100 + 2 * cpu.time) * Cos(i * 200)) \div Scale
        noiseY == (Cos(i * 100 + 2 * cpu.time) * Sin(i * 200)) \div Scale
        spread == 2 * cpu.config.dispersion
    IN  IF cpu.config.dispersion > 0
        THEN <<(((noiseX * spread) \div Scale) * CpuRandomFactor(i)) \div Scale,
               (((noiseY * spread) \div Scale) * CpuRandomFactor(i)) \div Scale>>
        ELSE <<0, 0>>

\* C28: after a frame of the CPU animator every particle's x and y are the
\* dataset's base x and y plus the displacement for the frame's time and the
\* config, whatever the buffer held before; a frame at the same time as the
\* frame before it leaves the render buffer as it was
C28_NoAccumulation ==
    /\ [](lastOp.op = "FrameCpu" /\ lastOp.ok =>
             \A i \in 0..((Len(CpuBase) \div 3) - 1) :
                 /\ CpuBuffer[3 * i + 1] = CpuBase[3 * i + 1] + CpuShift(i)[1]
                 /\ CpuBuffer[3 * i + 2] = CpuBase[3 * i + 2] + CpuShift(i)[2])
    /\ [][/\ lastOp.op = "FrameCpu" /\ lastOp.ok
          /\ lastOp'.op = "FrameCpu" /\ lastOp'.ok
          /\ cpu'.time = cpu.time
          => heap' = heap]_vars

\* the second frame of the CPU animator ran on a buffer that the first had
\* displaced, and left base plus one displacement
C28_Witness ==
    /\ lastOp.op = "FrameCpu"
    /\ lastOp.ok
    /\ cpu.frames = 2
    /\ cpu.time > 0
    /\ cpu.config.dispersion > 0
    /\ \E i \in 0..((Len(CpuBase) \div 3) - 1) :
          /\ CpuShift(i)[1] # 0
          /\ CpuBuffer[3 * i + 1] = CpuBase[3 * i + 1] + CpuShift(i)[1]

FailedFor(src, density) ==
    /\ lastOp.op \in {"ImgOnload", "ImgOnerror"}
    /\ ~lastOp.ok
    /\ lastOp.key = cacheKey(src, density)

\* the component holds the dataset of the request and draws it
DrawsRequest == Match /\ error = NoError /\ scene.kind = "points"

\* C27: if from some point on the request stays (src, density) and no load
\* for (src, density) ever fails, then from some point on the component holds
\* the dataset of (src, density) and draws it, however the other loads end
C27_EventuallyDrawn ==
    \A src \in Srcs, density \in Densities :
        (<>[](imageUrl = src /\ config.density = density) /\ []~FailedFor(src, density))
            => <>[]DrawsRequest

\* the last request is drawn and every load has ended, the last of them a
\* stale load that failed after the request's own load had resolved
C27_Witness ==
    /\ DrawsRequest
    /\ effectRuns = MaxLiveLoads
    /\ ~effectPending
    /\ inflight = <<>>
    /\ lastOp.op = "ImgOnerror"
    /\ ~lastOp.mounted

=============================================================================
